---- MODULE Spec2Model ----
(***************************************************************************)
(* Model of the bar-by-bar backtesting engine of src/strategy_pipeline.py  *)
(* (class Engine, the indicator functions and zscore).                     *)
(*                                                                         *)
(* Numbers.  The program computes in binary floating point.  Here every    *)
(* amount is a fixed-point integer: prices are integer ticks, money and    *)
(* quantities are integers, and every fractional parameter or ratio        *)
(* (returns, momenta, z-scores, risk fractions, leverage caps, ATR         *)
(* multipliers, fee rate) is an integer count of 1/FP.  A product with a   *)
(* fraction is Mul, a quotient is \div (rounding down).  A missing value   *)
(* (Python None) is the empty tuple and a present value v is <<v>>.        *)
(*                                                                         *)
(* Observers.  A position and its Trade carry pid, the serial number of    *)
(* the position (opened counts the positions opened), so that a position   *)
(* reopened in a symbol is told from the one closed before it; a Trade     *)
(* carries exit_step, the global step of its exit, and stop_level, the     *)
(* trail_stop of the position when it was closed, and a position           *)
(* entry_step, the global step of its entry; sizings                       *)
(* lists, for the last run of the add loop or of the entry loop, the       *)
(* locals mtm_now, exposure_cur, the allowed notional, the notional the    *)
(* position already holds at the close and the notional filled of every    *)
(* sizing decision.  None of them is read by an operation.                 *)
(*                                                                         *)
(* Bars carry ts, h, l, c only: Engine never reads Bar.o or Bar.v.         *)
(* The market filter (cfg.market_filter, default False) is off throughout, *)
(* so m_ret_series is empty and lines 376-384, 447-450, 568-570, 578-579   *)
(* and 587-588 are not executed.                                           *)
(***************************************************************************)
EXTENDS Integers, Sequences, FiniteSets, TLC

\* ------------------------------------------------------------------ bounds

\* Largest number of global timestamps (len(all_ts)) of a run.
MaxSteps == 4
\* Close of a symbol's first bar, in ticks.
P0 == 100
\* Size of a close-to-close move, in ticks.
PriceStep == 4
\* Distance of a bar's high and low from its close, in ticks.
Wick == 2

\* ------------------------------------------------------------------ numbers

\* One unit of a fraction: bps_to_price divides basis points by 10000.0.
FP == 10000

\* The keys of the data dictionary, in its order (syms).
Syms == {1, 2}

None == << >>
Some(v) == <<v>>
IsNone(x) == x = << >>
Val(x) == x[1]
\* Python's "x or 0.0" on an optional number.
OrZero(x) == IF IsNone(x) THEN 0 ELSE Val(x)

Max(a, b) == IF a >= b THEN a ELSE b
Min(a, b) == IF a <= b THEN a ELSE b
Abs(a) == IF a >= 0 THEN a ELSE -a

\* x times the fraction f (f counted in 1/FP).
Mul(x, f) == (x * f) \div FP

\* What a division by the guard value 1e-9 of max(d, 1e-9) yields: an
\* amount above every cap of the model.
Huge == 10000000

\* a / max(d, 1e-9) for a >= 0.
DivEps(a, d) == IF d > 0 THEN a \div d ELSE IF a = 0 THEN 0 ELSE Huge

RECURSIVE ISqrtIn(_, _, _)
\* The r in lo..hi with r*r <= v < (r+1)*(r+1), by bisection.
ISqrtIn(v, lo, hi) ==
    IF lo >= hi THEN lo
    ELSE LET mid == (lo + hi + 1) \div 2
         IN  IF mid * mid <= v THEN ISqrtIn(v, mid, hi)
             ELSE ISqrtIn(v, lo, mid - 1)
\* math.sqrt on a non-negative integer, rounded down.
ISqrt(v) == ISqrtIn(v, 0, Min(v, 40000))

RECURSIVE SeqSum(_)
SeqSum(s) == IF s = << >> THEN 0 ELSE Head(s) + SeqSum(Tail(s))

RECURSIVE SeqMax(_)
SeqMax(s) == IF Len(s) = 1 THEN s[1] ELSE Max(Head(s), SeqMax(Tail(s)))

RECURSIVE SeqMin(_)
SeqMin(s) == IF Len(s) = 1 THEN s[1] ELSE Min(Head(s), SeqMin(Tail(s)))

\* ------------------------------------------------------------------ Config

\* The Config dataclass.  Fractions are in 1/FP: theta_ret 0.003 is 30,
\* max_actual_leverage 1.0 is 10000, m1_init_sl_atr 1.5 is 15000.
\* slippage_bps is in basis points as in the program.
\* The windows are short so that a run of MaxSteps bars leaves warm-up.
BaseConfig ==
    [ L_ret |-> 1, lookback_sma |-> 2, ema_fast |-> 1, ema_slow |-> 2,
      donchian_n |-> 2, atr_n |-> 1, theta_ret |-> 30,
      rebalance_every |-> 1, top_k |-> 2, risk_per_trade |-> 50,
      max_actual_leverage |-> 10000, per_symbol_exposure_max |-> 2000,
      min_actual_leverage |-> 0, fee_rate |-> 6, slippage_bps |-> 100,
      m1_init_sl_atr |-> 15000, m2_trail_sl_atr |-> 20000,
      time_stop_bars |-> 2, initial_equity |-> 100000,
      allow_long |-> TRUE, allow_short |-> TRUE,
      momentum_gate |-> FALSE, z_score_thresh |-> 0,
      pyramid_max_adds |-> 3, pyramid_step_atr |-> 10000,
      pyramid_risk_multipliers |-> <<10000, 12500, 15000>>,
      be_after_adds |-> 1, be_rr |-> 10000,
      lock_after_adds |-> 1, lock_atr_mult |-> 10000,
      pool_size |-> 12, pool_mom_L1 |-> 1, pool_mom_L2 |-> 2,
      cooldown_bars |-> 2, roi_mode |-> "notional",
      report_leverage |-> 100000 ]

\* ------------------------------------------------------------------ indicators
\* Each indicator function of the program returns a list aligned with its
\* input; the operator gives the list's element at the 1-based index i.

\* The average of the values at hand while the window is not full.
sma_partial(vals, n, i) ==
    LET lo == IF i - n + 1 >= 1 THEN i - n + 1 ELSE 1
    IN  Some(SeqSum(SubSeq(vals, lo, i)) \div (i - lo + 1))

\* sma(vals, n)[i]: the deque holds the last n values; None until it is full.
sma(vals, n, i) ==
    IF i >= n THEN Some(SeqSum(SubSeq(vals, i - n + 1, i)) \div n) ELSE None

RECURSIVE ema(_, _, _)
\* ema(vals, n)[i]: k = 2/(n+1), seeded with the first sample.
ema(vals, n, i) ==
    IF i = 1 THEN vals[1]
    ELSE (2 * vals[i] + (n - 1) * ema(vals, n, i - 1)) \div (n + 1)

\* The channel high over the n values before the current one.
donchian_high_prior(prices, n, i) ==
    IF i > n THEN Some(SeqMax(SubSeq(prices, i - n, i - 1))) ELSE None

donchian_high(prices, n, i) ==
    IF i >= n THEN Some(SeqMax(SubSeq(prices, i - n + 1, i))) ELSE None

donchian_low(prices, n, i) ==
    IF i >= n THEN Some(SeqMin(SubSeq(prices, i - n + 1, i))) ELSE None

\* true_range(h, l, c)[i] for a bar list B.
true_range(B, i) ==
    IF i = 1 THEN B[1].h - B[1].l
    ELSE Max(B[i].h - B[i].l,
             Max(Abs(B[i].h - B[i - 1].c), Abs(B[i].l - B[i - 1].c)))

\* atr(h, l, c, n)[i] = ema(true_range, n)[i].
atr(B, n, i) == ema([k \in 1..Len(B) |-> true_range(B, k)], n, i)

Closes(B) == [k \in 1..Len(B) |-> B[k].c]

\* c[i] / c[i - L] - 1.0, None while i - L is before the first bar or the
\* divisor is 0 (ret_L, momL1, momL2).
RatioRet(c, L, i) ==
    IF i - L >= 1 /\ c[i - L] # 0 THEN Some((c[i] * FP) \div c[i - L] - FP)
    ELSE None

\* features[s] at index i, as built by Engine.run before the main loop.
Features(cfg, B, i) ==
    LET c == Closes(B)
        sma_v == sma(c, cfg.lookback_sma, i)
        ema_f == ema(c, cfg.ema_fast, i)
        ema_s == ema(c, cfg.ema_slow, i)
    IN  [ ret_L  |-> RatioRet(c, cfg.L_ret, i),
          mom1   |-> IF IsNone(sma_v) \/ sma_v = Some(0) THEN None
                     ELSE Some((c[i] * FP) \div Val(sma_v) - FP),
          mom2   |-> IF ema_s = 0 THEN None
                     ELSE Some((ema_f * FP) \div ema_s - FP),
          don_hi |-> donchian_high(c, cfg.donchian_n, i),
          don_lo |-> donchian_low(c, cfg.donchian_n, i),
          atr    |-> Some(atr(B, cfg.atr_n, i)),
          momL1  |-> RatioRet(c, Max(1, cfg.pool_mom_L1), i),
          momL2  |-> RatioRet(c, Max(1, cfg.pool_mom_L2), i) ]

\* ------------------------------------------------------------------ zscore

\* The values themselves taken for their scores.
zscore_raw(values) == values

\* zscore(values): the standard scores of the values present, None for a
\* value that is None.
zscore(values) ==
    LET present == SelectSeq(values, LAMBDA x : ~IsNone(x))
        arr == [k \in 1..Len(present) |-> Val(present[k])]
    IN  IF arr = << >> THEN [k \in 1..Len(values) |-> None]
        ELSE LET n   == Len(arr)
                 m   == SeqSum(arr) \div n
                 var == SeqSum([k \in 1..n |-> (arr[k] - m) * (arr[k] - m)]) \div n
                 sd  == ISqrt(var)
             IN  IF sd = 0
                 THEN [k \in 1..Len(values) |-> IF IsNone(values[k]) THEN None ELSE Some(0)]
                 ELSE [k \in 1..Len(values) |->
                         IF IsNone(values[k]) THEN None
                         ELSE Some(((Val(values[k]) - m) * FP) \div sd)]

\* ------------------------------------------------------------------ state

VARIABLES
    cfg,                 \* Engine.cfg
    data,                \* Engine.data: symbol -> the bars read so far
    all_ts,              \* the global timestamps stepped through so far
    idx,                 \* run: idx, symbol -> cursor into its bars
    cur_bar,             \* run: cur_bar, symbol -> latest bar or None
    feat,                \* run: features[s][.][i] at the current index i of s
    bars_since_entry,    \* run: bars_since_entry (defaultdict(int))
    cooldown,            \* run: cooldown (defaultdict(int))
    last_rebalance_step, \* run: last_rebalance_step
    to_close,            \* run: to_close of the current step
    candidates,          \* run: candidates of the current rebalance tick
    cash,                \* Engine.cash
    position,            \* Engine.position, in insertion order
    trades,              \* Engine.trades
    equity_curve,        \* Engine.equity_curve
    sizings,             \* the sizing decisions of the last add/entry loop
    opened,              \* number of positions opened so far
    pc                   \* where run() stands

vars == << cfg, data, all_ts, idx, cur_bar, feat, bars_since_entry, cooldown,
           last_rebalance_step, to_close, candidates, cash, position,
           trades, equity_curve, sizings, opened, pc >>

\* enumerate(all_ts): the 0-based step and its timestamp.
step == Len(all_ts) - 1
ts == all_ts[Len(all_ts)]

\* ------------------------------------------------------------------ position map

\* s in self.position
Held(P, s) == \E k \in 1..Len(P) : P[k].symbol = s

PosIndex(P, s) == CHOOSE k \in 1..Len(P) : P[k].symbol = s

\* The position map left as it is.
RemoveNothing(P, s) == P

\* del self.position[symbol]
Remove(P, s) == SelectSeq(P, LAMBDA p : p.symbol # s)

\* sum(f(p) for p in P)
SumOver(P, f(_)) == SeqSum([k \in 1..Len(P) |-> f(P[k])])

\* _compute_mtm without the direction of the position.
compute_mtm_unsigned(c, P, cb) ==
    LET Unreal(p) ==
            IF IsNone(cb[p.symbol]) THEN 0
            ELSE p.qty * (Val(cb[p.symbol]).c - p.entry_price)
    IN  c + SumOver(P, Unreal)

\* Engine._compute_mtm
compute_mtm(c, P, cb) ==
    LET Unreal(p) ==
            IF IsNone(cb[p.symbol]) THEN 0
            ELSE (IF p.side > 0 THEN 1 ELSE -1) * p.qty
                 * (Val(cb[p.symbol]).c - p.entry_price)
    IN  c + SumOver(P, Unreal)

\* sum(abs(p.qty * cur_bar[s2].c) for ... if cur_bar.get(s2))
Exposure(P, cb) ==
    LET Notional(p) == IF IsNone(cb[p.symbol]) THEN 0
                       ELSE Abs(p.qty * Val(cb[p.symbol]).c)
    IN  SumOver(P, Notional)

\* The slippage with bps read as hundredths.
bps_as_percent(price, bps) == (price * bps) \div 100

bps_to_price(price, bps) == (price * bps) \div 10000

\* self.cash = pnl
CashAssigned(csh, pnl) == pnl

\* self.cash += pnl
CashAfterExit(csh, pnl) == csh + pnl

\* The exit filled at the stop level of the position.
exit_at_stop(c, pos, b) == pos.trail_stop

\* exit_price = bar.c - (slip if pos.side > 0 else -slip)
exit_fill(c, pos, b) ==
    LET slip == bps_to_price(b.c, c.slippage_bps)
    IN  b.c - (IF pos.side > 0 THEN slip ELSE -slip)

\* The gross result computed as if every position were long.
gross_long(pos, exit_price) == pos.qty * (exit_price - pos.entry_price)

\* gross = (exit_price - pos.entry_price) * pos.qty * (1 if pos.side > 0 else -1)
gross_pnl(pos, exit_price) ==
    (IF pos.side > 0 THEN 1 ELSE -1) * pos.qty * (exit_price - pos.entry_price)

\* The fee charged on the exit notional alone.
fees_on_exit(c, notional_entry, notional_exit) == Mul(notional_exit, c.fee_rate)

\* fees = self.cfg.fee_rate * (notional_entry + notional_exit)
trade_fees(c, notional_entry, notional_exit) ==
    Mul(notional_entry + notional_exit, c.fee_rate)

\* The net result scaled by the reporting leverage in margin mode.
net_pnl_reported(c, gross, fees) ==
    IF c.roi_mode = "margin" THEN Mul(gross - fees, c.report_leverage)
    ELSE gross - fees

\* pnl = gross - fees
net_pnl(c, gross, fees) == gross - fees

\* Engine._exit_position on the engine fields E = [cash, position, trades].
exit_position(c, E, symbol, bar, reason) ==
    IF ~Held(E.position, symbol) \/ IsNone(bar) THEN E
    ELSE LET pos  == E.position[PosIndex(E.position, symbol)]
             b    == Val(bar)
             exit_price == exit_fill(c, pos, b)
             gross == gross_pnl(pos, exit_price)
             notional_entry == IF pos.acc_entry_notional # 0
                               THEN pos.acc_entry_notional
                               ELSE Abs(pos.qty * pos.entry_price)
             notional_exit == Abs(pos.qty * exit_price)
             fees == trade_fees(c, notional_entry, notional_exit)
             pnl  == net_pnl(c, gross, fees)
             base_pct == IF notional_entry > 0
                         THEN (pnl * FP) \div notional_entry
                         ELSE IF pnl = 0 THEN 0 ELSE pnl * FP
             pnl_pct ==
                 IF c.roi_mode = "margin" THEN Mul(base_pct, c.report_leverage)
                 ELSE IF c.roi_mode = "equity"
                      THEN (IF pos.equity_entry > 0
                            THEN (pnl * FP) \div pos.equity_entry
                            ELSE IF pnl = 0 THEN 0 ELSE pnl * FP)
                      ELSE base_pct
         IN  [ cash |-> CashAfterExit(E.cash, pnl),
               position |-> Remove(E.position, symbol),
               trades |-> Append(E.trades,
                   [ symbol |-> pos.symbol,
                     side |-> IF pos.side > 0 THEN "long" ELSE "short",
                     entry_ts |-> pos.entry_ts, entry_price |-> pos.entry_price,
                     exit_ts |-> b.ts, exit_price |-> exit_price,
                     qty |-> pos.qty, pnl |-> pnl, pnl_pct |-> pnl_pct,
                     fees |-> fees, reason |-> reason,
                     equity_entry |-> pos.equity_entry,
                     exposure_notional |-> pos.exposure_notional,
                     exposure_frac |-> pos.exposure_frac,
                     adds_done |-> pos.adds_done,
                     pid |-> pos.pid, exit_step |-> step,
                     stop_level |-> pos.trail_stop ]) ]

\* ------------------------------------------------------------------ input

\* A configuration whose exposure caps bind: a 5% risk per trade under a
\* portfolio cap equal to the per-symbol cap, with a two-bar return window,
\* a tighter trail and a shorter pyramid step.
AltConfig ==
    [BaseConfig EXCEPT !.donchian_n = 1, !.risk_per_trade = 500,
                       !.max_actual_leverage = 2000,
                       !.m2_trail_sl_atr = 10000, !.pyramid_step_atr = 5000]

\* A configuration that rebalances every second step on a two-bar return
\* and moves a stop to breakeven without any add, after a fifth of the
\* initial stop distance.
SlowConfig ==
    [BaseConfig EXCEPT !.L_ret = 2, !.rebalance_every = 2,
                       !.be_after_adds = 0, !.be_rr = 2000]

\* Structurally invalid configurations: top_k <= 0, a negative
\* risk_per_trade, rebalance_every <= 0.
InvalidConfigs ==
    { [BaseConfig EXCEPT !.top_k = 0],
      [SlowConfig EXCEPT !.top_k = 0],
      [BaseConfig EXCEPT !.risk_per_trade = -50],
      [BaseConfig EXCEPT !.rebalance_every = 0] }

\* A configuration that holds one position and never adds to it, with a
\* three-bar average, a one-bar channel and a shorter pyramid step; it trades
\* free of slippage and fees and asks for a minimum leverage above its caps.
NarrowConfig ==
    [BaseConfig EXCEPT !.top_k = 1, !.pyramid_max_adds = 0, !.lookback_sma = 3,
                       !.donchian_n = 1, !.pyramid_step_atr = 5000,
                       !.slippage_bps = 0, !.fee_rate = 0,
                       !.min_actual_leverage = 5000]

\* The configurations a run is started with.
Configs == { BaseConfig, AltConfig, SlowConfig, NarrowConfig }

\* The shapes of a new bar: <<close minus previous close, wick>>.
Moves(s) ==
    IF s = 1 THEN { <<PriceStep, Wick>>, <<-PriceStep, Wick>>, <<0, 0>> }
    ELSE { <<PriceStep, Wick>>, <<-PriceStep, Wick>> }

\* The symbols that may lack a bar at a global timestamp.
Sparse == {1}

\* The bar of shape m that follows the bars B, stamped t.
NewBar(B, m, t) ==
    LET c == (IF B = << >> THEN P0 ELSE B[Len(B)].c) + m[1]
    IN  [ ts |-> t, h |-> c + m[2], l |-> c - m[2], c |-> c ]

\* What one global timestamp brings: per symbol a new bar's shape, or
\* None for a symbol without a bar at that timestamp; at least one bar.
Arrivals ==
    { a \in [Syms -> {None} \cup { Some(m) : m \in UNION { Moves(s) : s \in Syms } }] :
        /\ \E s \in Syms : ~IsNone(a[s])
        /\ \A s \in Syms : IF IsNone(a[s]) THEN s \in Sparse
                           ELSE Val(a[s]) \in Moves(s) }

\* ------------------------------------------------------------------ Engine

\* Engine.__init__ with a configuration of the set C.
InitWith(C) ==
    /\ cfg \in C
    /\ data = [s \in Syms |-> << >>]
    /\ all_ts = << >>
    /\ idx = [s \in Syms |-> 0]
    /\ cur_bar = [s \in Syms |-> None]
    /\ feat = [s \in Syms |-> None]
    /\ bars_since_entry = [s \in Syms |-> 0]
    /\ cooldown = [s \in Syms |-> 0]
    /\ last_rebalance_step = 0
    /\ to_close = << >>
    /\ candidates = << >>
    /\ cash = cfg.initial_equity
    /\ position = << >>
    /\ trades = << >>
    /\ equity_curve = << >>
    /\ sizings = << >>
    /\ opened = 0
    /\ pc = "constructed"

Init == InitWith(Configs)

\* run(), up to the main loop: the cursors and the per-run dictionaries.
RunStart ==
    /\ pc = "constructed"
    /\ idx' = [s \in Syms |-> 0]
    /\ cur_bar' = [s \in Syms |-> None]
    /\ bars_since_entry' = [s \in Syms |-> 0]
    /\ cooldown' = [s \in Syms |-> 0]
    /\ last_rebalance_step' = -1000000000
    /\ pc' = "loop"
    /\ UNCHANGED << cfg, data, all_ts, feat, to_close, candidates, cash, position,
                    trades, equity_curve, sizings, opened >>

\* The cursor moved to the last loaded bar whatever its timestamp.
AdvanceCursorToEnd(bars, i, cb, t) ==
    IF bars = << >> THEN [ idx |-> i, cur_bar |-> cb ]
    ELSE [ idx |-> Len(bars), cur_bar |-> Some(bars[Len(bars)]) ]

RECURSIVE AdvanceCursor(_, _, _, _)
\* while idx[s] < len(bars) and bars[idx[s]].ts <= ts: ...
AdvanceCursor(bars, i, cb, t) ==
    IF i < Len(bars) /\ bars[i + 1].ts <= t
    THEN AdvanceCursor(bars, i + 1, Some(bars[i + 1]), t)
    ELSE [ idx |-> i, cur_bar |-> cb ]

\* The time-in-position counter left as it is.
since_frozen(n, held, cb) == n

\* if s in self.position and cur_bar[s] is not None: bars_since_entry[s] += 1
since_after_step(n, held, cb) == IF held /\ ~IsNone(cb) THEN n + 1 ELSE n

\* The head of the main loop: the next global timestamp, the cursors
\* advanced to it and the time-in-position counters.
NextTs ==
    /\ pc = "loop"
    /\ Len(all_ts) < MaxSteps
    /\ \E a \in Arrivals :
         LET t   == Len(all_ts) + 1
             d   == [s \in Syms |-> IF IsNone(a[s]) THEN data[s]
                                    ELSE Append(data[s], NewBar(data[s], Val(a[s]), t))]
             adv == [s \in Syms |-> AdvanceCursor(d[s], idx[s], cur_bar[s], t)]
         IN  /\ data' = d
             /\ all_ts' = Append(all_ts, t)
             /\ idx' = [s \in Syms |-> adv[s].idx]
             /\ cur_bar' = [s \in Syms |-> adv[s].cur_bar]
             /\ feat' = [s \in Syms |-> IF adv[s].idx = 0 THEN None
                                         ELSE Features(cfg, d[s], Max(1, adv[s].idx))]
             /\ bars_since_entry' =
                  [s \in Syms |-> since_after_step(bars_since_entry[s],
                                                   Held(position, s), adv[s].cur_bar)]
    /\ pc' = "stops"
    /\ UNCHANGED << cfg, cooldown, last_rebalance_step, to_close, candidates,
                    cash, position, trades, equity_curve, sizings, opened >>

\* features[s] at i = max(0, idx[s]-1), the index of the current bar of s.
Feat(s) == feat[s]

\* pos.trail_stop = level
RatchetLoose(side, stop, level) == level

\* pos.trail_stop = max(pos.trail_stop, level) for a long, min for a short.
Ratchet(side, stop, level) ==
    IF side > 0 THEN Max(stop, level) ELSE Min(stop, level)

\* The trailing level of a position whose best price is mf.
TrailLevel(c, side, mf, atr_i) ==
    IF side > 0 THEN mf - Mul(c.m2_trail_sl_atr, atr_i)
    ELSE mf + Mul(c.m2_trail_sl_atr, atr_i)

\* The exit test with the time stop tested first.
ExitReasonTimeFirst(hit, timed) ==
    IF timed THEN "time_stop" ELSE IF hit THEN "trail_stop" ELSE ""

\* if <stop breached>: 'trail_stop' elif <time is up>: 'time_stop'
ExitReason(hit, timed) ==
    IF hit THEN "trail_stop" ELSE IF timed THEN "time_stop" ELSE ""

\* The breakeven ratchet left out.
be_never(c, pos, b, atr_i) == FALSE

\* if pos.adds_done >= be_after_adds and atr_i > 0: if r_move >= be_rr * atr_mult * atr_i
be_due(c, pos, b, atr_i) ==
    LET r_move == IF pos.side > 0 THEN b.c - pos.entry_price
                  ELSE pos.entry_price - b.c
    IN  /\ pos.adds_done >= c.be_after_adds
        /\ atr_i > 0
        /\ r_move >= Mul(Mul(c.be_rr, pos.atr_mult), atr_i)

\* The stop update and exit test of one open position on its bar b.
StopUpdate(c, pos, b, atr_opt, since) ==
    LET atr_i == OrZero(atr_opt)
        mf    == IF pos.side > 0 THEN Max(pos.max_fav_price, b.h)
                 ELSE Min(pos.max_fav_price, b.l)
        s1    == Ratchet(pos.side, pos.trail_stop, TrailLevel(c, pos.side, mf, atr_i))
        s2    == IF be_due(c, pos, b, atr_i)
                 THEN Ratchet(pos.side, s1, pos.entry_price) ELSE s1
        lock_stop == IF pos.side > 0
                     THEN pos.last_add_price - Mul(c.lock_atr_mult, atr_i)
                     ELSE pos.last_add_price + Mul(c.lock_atr_mult, atr_i)
        s3    == IF /\ pos.adds_done >= c.lock_after_adds
                    /\ atr_i > 0
                    /\ pos.last_add_price # 0
                 THEN Ratchet(pos.side, s2, lock_stop) ELSE s2
        hit   == IF pos.side > 0 THEN b.l <= s3 ELSE b.h >= s3
    IN  [ pos |-> [pos EXCEPT !.max_fav_price = mf, !.trail_stop = s3],
          reason |-> ExitReason(hit, since >= c.time_stop_bars) ]

\* The per-step loop over the open positions: stops and the exit list.
UpdateStops ==
    /\ pc = "stops"
    /\ LET upd == [k \in 1..Len(position) |->
                     LET p == position[k]
                     IN  StopUpdate(cfg, p, Val(cur_bar[p.symbol]),
                                    Feat(p.symbol).atr, bars_since_entry[p.symbol])]
           due == SelectSeq(upd, LAMBDA u : u.reason # "")
       IN  /\ position' = [k \in 1..Len(position) |-> upd[k].pos]
           /\ to_close' = [k \in 1..Len(due) |->
                             <<due[k].pos.symbol, due[k].reason>>]
    /\ pc' = "exits"
    /\ UNCHANGED << cfg, data, all_ts, idx, cur_bar, feat, bars_since_entry, cooldown,
                    last_rebalance_step, candidates, cash, trades,
                    equity_curve, sizings, opened >>

\* The stop and time exits left out.
CloseAllSkipped(c, E, todo) == E

RECURSIVE CloseAll(_, _, _)
\* for s, reason in to_close: exit, then the cooldown of a losing exit.
CloseAll(c, E, todo) ==
    IF todo = << >> THEN E
    ELSE LET s  == Head(todo)[1]
             X  == exit_position(c, [cash |-> E.cash, position |-> E.position,
                                     trades |-> E.trades],
                                 s, cur_bar[s], Head(todo)[2])
             last == X.trades[Len(X.trades)]
             cd == IF X.trades # << >> /\ last.symbol = s /\ last.pnl < 0
                   THEN [E.cooldown EXCEPT ![s] = Max(E.cooldown[s], c.cooldown_bars)]
                   ELSE E.cooldown
         IN  CloseAll(c, [ cash |-> X.cash, position |-> X.position,
                           trades |-> X.trades, cooldown |-> cd,
                           bars_since_entry |->
                               [E.bars_since_entry EXCEPT ![s] = 0] ],
                      Tail(todo))

\* The stop and time exits of the step.
CloseStops ==
    /\ pc = "exits"
    /\ LET E == CloseAll(cfg, [ cash |-> cash, position |-> position,
                                trades |-> trades, cooldown |-> cooldown,
                                bars_since_entry |-> bars_since_entry ],
                         to_close)
       IN  /\ cash' = E.cash
           /\ position' = E.position
           /\ trades' = E.trades
           /\ cooldown' = E.cooldown
           /\ bars_since_entry' = E.bars_since_entry
    /\ pc' = "rebalance"
    /\ UNCHANGED << cfg, data, all_ts, idx, cur_bar, feat, last_rebalance_step,
                    to_close, candidates, equity_curve, sizings, opened >>

RECURSIVE InsertDesc(_, _)
\* x put after every element whose key (first component) is >= its own.
InsertDesc(sorted, x) ==
    IF sorted = << >> THEN <<x>>
    ELSE IF Head(sorted)[1] >= x[1] THEN <<Head(sorted)>> \o InsertDesc(Tail(sorted), x)
    ELSE <<x>> \o sorted

RECURSIVE SortDesc(_)
\* list.sort(key=..., reverse=True) on <<key, item>> pairs: descending and
\* stable (equal keys keep their order).
SortDesc(pairs) ==
    IF pairs = << >> THEN << >>
    ELSE InsertDesc(SortDesc(SubSeq(pairs, 1, Len(pairs) - 1)), pairs[Len(pairs)])

\* syms = list(self.data.keys())
SymSeq == <<1, 2>>

\* The momentum test without the test.
HasMomentaAlways(f) == TRUE

\* if m1 is None or m2 is None: continue
HasMomenta(f) == ~IsNone(f.mom1) /\ ~IsNone(f.mom2)

\* val_syms: the symbols with a current bar and both momenta present.
ValSyms ==
    SelectSeq(SymSeq, LAMBDA s : ~IsNone(cur_bar[s]) /\ HasMomenta(Feat(s)))

\* The cooldown counters left as they are.
cooldown_kept(cd) == cd

\* The cooldown countdown of a rebalance tick.
CooldownTick(cd) == [s \in Syms |-> IF cd[s] <= 0 THEN 0 ELSE cd[s] - 1]

\* pool_set: the first pool_k symbols by momL1 + momL2, None counting 0.
PoolSet(c, vs) ==
    LET scored == [k \in 1..Len(vs) |->
                     << OrZero(Feat(vs[k]).momL1) + OrZero(Feat(vs[k]).momL2), vs[k] >>]
        ranked == SortDesc(scored)
        pool_k == Max(1, c.pool_size)
    IN  { ranked[k][2] : k \in 1..Min(pool_k, Len(ranked)) }

\* The long and short tests of one symbol: <<side, score>>, side 0 for
\* a symbol that is no candidate.
Eligibility(c, s, z1v, z2v, pool, cd) ==
    LET f == Feat(s)
        b == Val(cur_bar[s])
        score == OrZero(z1v) + OrZero(z2v)
        long_ok ==
            /\ c.allow_long
            /\ Val(f.ret_L) > c.theta_ret
            /\ ~IsNone(f.don_hi) /\ b.c >= Val(f.don_hi)
            /\ (~c.momentum_gate \/ (/\ ~IsNone(f.mom1) /\ ~IsNone(f.mom2)
                                      /\ Val(f.mom1) > 0 /\ Val(f.mom2) > 0))
            /\ (c.z_score_thresh <= 0 \/ score >= c.z_score_thresh)
        short_ok ==
            /\ c.allow_short
            /\ Val(f.ret_L) < -c.theta_ret
            /\ ~IsNone(f.don_lo) /\ b.c <= Val(f.don_lo)
            /\ (~c.momentum_gate \/ (/\ ~IsNone(f.mom1) /\ ~IsNone(f.mom2)
                                      /\ Val(f.mom1) < 0 /\ Val(f.mom2) < 0))
            /\ (c.z_score_thresh <= 0 \/ -score >= c.z_score_thresh)
    IN  IF s \notin pool \/ cd[s] > 0 THEN <<0, 0>>
        ELSE IF IsNone(f.ret_L) THEN <<0, 0>>
        ELSE IF long_ok THEN <<1, score>>
        ELSE IF short_ok THEN <<-1, -score>>
        ELSE <<0, 0>>

\* candidates, sorted by score: a list of <<score, <<symbol, side>>>>.
Candidates(c, cd) ==
    LET vs   == ValSyms
        z1   == zscore([k \in 1..Len(vs) |-> Feat(vs[k]).mom1])
        z2   == zscore([k \in 1..Len(vs) |-> Feat(vs[k]).mom2])
        pool == PoolSet(c, vs)
        el   == [k \in 1..Len(vs) |-> Eligibility(c, vs[k], z1[k], z2[k], pool, cd)]
        all  == [k \in 1..Len(vs) |-> << el[k][2], <<vs[k], el[k][1]>> >>]
    IN  SortDesc(SelectSeq(all, LAMBDA x : x[2][2] # 0))

\* The alignment test without the side of the position.
AlignmentLostAnySide(pos) ==
    LET r == feat[pos.symbol].ret_L
    IN  ~IsNone(r) /\ Val(r) # 0

\* A position's side disagrees with the sign of its symbol's ret_L.
AlignmentLost(pos) ==
    LET r == Feat(pos.symbol).ret_L
    IN  /\ ~IsNone(r)
        /\ \/ pos.side > 0 /\ Val(r) < 0
           \/ pos.side < 0 /\ Val(r) > 0

\* The alignment exits left out.
CloseMisalignedSkipped(c, E, todo) == E

RECURSIVE CloseMisaligned(_, _, _)
\* for s, pos in list(self.position.items()): the alignment_lost exits.
CloseMisaligned(c, E, todo) ==
    IF todo = << >> THEN E
    ELSE LET pos == Head(todo)
             s   == pos.symbol
         IN  IF AlignmentLost(pos)
             THEN LET X == exit_position(c, [cash |-> E.cash, position |-> E.position,
                                             trades |-> E.trades],
                                         s, cur_bar[s], "alignment_lost")
                  IN  CloseMisaligned(c, [ cash |-> X.cash, position |-> X.position,
                                           trades |-> X.trades,
                                           bars_since_entry |->
                                               [E.bars_since_entry EXCEPT ![s] = 0] ],
                                      Tail(todo))
             ELSE CloseMisaligned(c, E, Tail(todo))

\* A rebalance test on the bars read of the first symbol.
IsRebalanceTickByBars == (idx[1] - 1) % Max(1, cfg.rebalance_every) = 0

\* Every global step taken for a rebalance tick.
IsRebalanceTickAlways == TRUE

\* step - last_rebalance_step >= rebalance_every
IsRebalanceTick == step - last_rebalance_step >= cfg.rebalance_every

\* A rebalance tick up to the alignment exits: z-scores, cooldown
\* countdown, pool, candidate list, alignment_lost exits.
Rebalance ==
    /\ pc = "rebalance"
    /\ IsRebalanceTick
    /\ last_rebalance_step' = step
    /\ cooldown' = CooldownTick(cooldown)
    /\ candidates' = Candidates(cfg, CooldownTick(cooldown))
    /\ LET E == CloseMisaligned(cfg, [ cash |-> cash, position |-> position,
                                       trades |-> trades,
                                       bars_since_entry |-> bars_since_entry ],
                                position)
       IN  /\ cash' = E.cash
           /\ position' = E.position
           /\ trades' = E.trades
           /\ bars_since_entry' = E.bars_since_entry
    /\ pc' = "adds"
    /\ UNCHANGED << cfg, data, all_ts, idx, cur_bar, feat, to_close, equity_curve,
                    sizings, opened >>

\* A step that is no rebalance tick goes on to the equity record.
NoRebalance ==
    /\ pc = "rebalance"
    /\ ~IsRebalanceTick
    /\ pc' = "record"
    /\ UNCHANGED << cfg, data, all_ts, idx, cur_bar, feat, bars_since_entry, cooldown,
                    last_rebalance_step, to_close, candidates, cash, position,
                    trades, equity_curve, sizings, opened >>

\* The portfolio cap left out of the sizing.
HeadroomUnlimited(c, mtm_now, exposure_cur) == Huge

\* headroom = max(0.0, total_cap - exposure_cur)
Headroom(c, mtm_now, exposure_cur) ==
    Max(0, Mul(c.max_actual_leverage, mtm_now) - exposure_cur)

\* min_notional
MinNotional(c, mtm_now) ==
    IF c.min_actual_leverage > 0 THEN Mul(c.min_actual_leverage, mtm_now) ELSE 0

\* The slippage applied in the trader's favour.
FillPriceFavourable(c, side, px) ==
    LET slip == bps_to_price(px, c.slippage_bps)
    IN  px - (IF side > 0 THEN slip ELSE -slip)

\* if atr_v <= 0: continue, without the test.
AtrUsableAlways(atr_v) == TRUE

\* The ATR guard of the add loop and of the entry loop.
AtrUsable(atr_v) == atr_v > 0

\* The fill price of an entry or add at close px: the close shifted by slippage.
FillPrice(c, side, px) ==
    LET slip == bps_to_price(px, c.slippage_bps)
    IN  px + (IF side > 0 THEN slip ELSE -slip)

\* The limit on the adds of a position left out.
AddsUnlimited(c, pos) == FALSE

\* if pos.adds_done >= self.cfg.pyramid_max_adds: continue
AddsExhausted(c, pos) == pos.adds_done >= c.pyramid_max_adds

\* The pyramid step test left out.
step_ok_always(c, pos, b, atr_v) == TRUE

\* step_ok: the close has moved pyramid_step_atr * ATR past the last fill.
step_ok(c, pos, b, atr_v) ==
    LET ref == IF pos.last_add_price # 0 THEN pos.last_add_price ELSE pos.entry_price
    IN  \/ pos.side > 0 /\ b.c >= ref + Mul(c.pyramid_step_atr, atr_v)
        \/ pos.side < 0 /\ b.c <= ref - Mul(c.pyramid_step_atr, atr_v)

\* One pass of the pyramid loop for the k-th position of P:
\* [position, sized], sized holding the sizing decision if one was made.
TryAdd(c, csh, P, k) ==
    LET pos   == P[k]
        s     == pos.symbol
        b     == Val(cur_bar[s])
        f     == Feat(s)
        atr_v == OrZero(f.atr)
        want_long  == /\ pos.side > 0 /\ Val(f.ret_L) > c.theta_ret
                      /\ ~IsNone(f.don_hi) /\ b.c >= Val(f.don_hi)
        want_short == /\ pos.side < 0 /\ Val(f.ret_L) < -c.theta_ret
                      /\ ~IsNone(f.don_lo) /\ b.c <= Val(f.don_lo)
        mtm_now == compute_mtm(csh, P, cur_bar)
        exposure_cur == Exposure(P, cur_bar)
        headroom == Headroom(c, mtm_now, exposure_cur)
        per_symbol_cap == Mul(c.per_symbol_exposure_max, mtm_now)
        mult_list == IF c.pyramid_risk_multipliers # << >>
                     THEN c.pyramid_risk_multipliers ELSE <<FP>>
        mult  == mult_list[Min(pos.adds_done, Len(mult_list) - 1) + 1]
        risk_amount == Mul(Mul(mtm_now, c.risk_per_trade), mult)
        stop_dist == Mul(c.m1_init_sl_atr, atr_v)
        base_qty == risk_amount \div stop_dist
        add_notional == Abs(base_qty * b.c)
        desired_notional == Max(add_notional, MinNotional(c, mtm_now) - exposure_cur)
        allowed == Min(headroom, per_symbol_cap - Abs(pos.qty * b.c))
        final_notional == Min(desired_notional, allowed)
        add_qty == final_notional \div b.c
        add_price == FillPrice(c, pos.side, b.c)
        new_qty == pos.qty + add_qty
        sized == [ kind |-> "add", symbol |-> s, mtm_now |-> mtm_now,
                   exposure_cur |-> exposure_cur, allowed |-> allowed,
                   held_notional |-> Abs(pos.qty * b.c),
                   final_notional |-> IF allowed > 0 /\ final_notional > 0 /\ new_qty > 0
                                      THEN final_notional ELSE 0 ]
        skip  == [ position |-> P, sized |-> << >> ]
    IN  IF AddsExhausted(c, pos) THEN skip
        ELSE IF ~AtrUsable(atr_v) THEN skip
        ELSE IF IsNone(f.ret_L) THEN skip
        ELSE IF ~(want_long \/ want_short) THEN skip
        ELSE IF ~step_ok(c, pos, b, atr_v) THEN skip
        ELSE IF risk_amount <= 0 \/ stop_dist <= 0
             THEN [ position |-> P, sized |-> <<sized>> ]
        ELSE IF allowed <= 0 \/ final_notional <= 0 \/ new_qty <= 0
             THEN [ position |-> P, sized |-> <<sized>> ]
        ELSE [ position |->
                 [P EXCEPT ![k] =
                    [pos EXCEPT
                       !.entry_price = (pos.entry_price * pos.qty + add_price * add_qty)
                                       \div new_qty,
                       !.qty = new_qty,
                       !.exposure_notional = Abs(new_qty * add_price),
                       !.exposure_frac = DivEps(Abs(new_qty * add_price) * FP, mtm_now),
                       !.adds_done = pos.adds_done + 1,
                       !.last_add_price = add_price,
                       !.acc_entry_notional = pos.acc_entry_notional
                                              + Abs(add_qty * add_price)]],
               sized |-> <<sized>> ]

RECURSIVE AddLoop(_, _, _, _, _)
\* for s, pos in list(self.position.items()): at most one add each.
AddLoop(c, csh, P, k, log) ==
    IF k > Len(P) THEN [ position |-> P, sizings |-> log ]
    ELSE LET r == TryAdd(c, csh, P, k)
         IN  AddLoop(c, csh, r.position, k + 1, log \o r.sized)

\* The pyramid adds of a rebalance tick.
PyramidAdds ==
    /\ pc = "adds"
    /\ LET r == AddLoop(cfg, cash, position, 1, << >>)
       IN  /\ position' = r.position
           /\ sizings' = r.sizings
    /\ pc' = "entries"
    /\ UNCHANGED << cfg, data, all_ts, idx, cur_bar, feat, bars_since_entry, cooldown,
                    last_rebalance_step, to_close, candidates, cash, trades,
                    equity_curve, opened >>

\* The limit on the open positions left out.
TopKIgnored(c, P) == FALSE

\* if len(self.position) >= self.cfg.top_k: break
TopKReached(c, P) == Len(P) >= c.top_k

\* The stop of a new position set at its entry price.
entry_trail_at_entry(init_stop, entry_price) == entry_price

\* trail = init_stop
entry_trail(init_stop, entry_price) == init_stop

\* One pass of the entry loop for the candidate <<s, side>>, the loop's
\* break on top_k aside: [position, sized, bars_since_entry, opened].
TryEntry(c, csh, P, s, side, since, n) ==
    LET b     == Val(cur_bar[s])
        atr_v == OrZero(Feat(s).atr)
        stop_dist == Mul(c.m1_init_sl_atr, atr_v)
        mtm_now == compute_mtm(csh, P, cur_bar)
        risk_amount == Mul(mtm_now, c.risk_per_trade)
        qty0  == DivEps(risk_amount, stop_dist)
        exposure_cur == Exposure(P, cur_bar)
        headroom == Headroom(c, mtm_now, exposure_cur)
        notional_risk == Abs(qty0 * b.c)
        desired_notional == Max(notional_risk, MinNotional(c, mtm_now))
        per_symbol_cap == Mul(c.per_symbol_exposure_max, mtm_now)
        allowed_notional == Min(per_symbol_cap, headroom)
        final_notional == Min(desired_notional, allowed_notional)
        qty   == final_notional \div b.c
        entry_price == FillPrice(c, side, b.c)
        init_stop == entry_price - side * stop_dist
        exposure_notional == Abs(qty * entry_price)
        sized == [ kind |-> "entry", symbol |-> s, mtm_now |-> mtm_now,
                   exposure_cur |-> exposure_cur, allowed |-> allowed_notional,
                   held_notional |-> 0,
                   final_notional |-> IF allowed_notional > 0 /\ final_notional > 0
                                      THEN final_notional ELSE 0 ]
        skip  == [ position |-> P, sized |-> << >>, bars_since_entry |-> since,
                   opened |-> n ]
    IN  IF Held(P, s) THEN skip
        ELSE IF IsNone(cur_bar[s]) \/ ~AtrUsable(atr_v) THEN skip
        ELSE IF risk_amount <= 0 THEN skip
        ELSE IF allowed_notional <= 0 \/ final_notional <= 0
             THEN [skip EXCEPT !.sized = <<sized>>]
        ELSE [ position |-> Append(P,
                 [ symbol |-> s, side |-> side, entry_ts |-> b.ts,
                   entry_price |-> entry_price, qty |-> qty,
                   init_stop |-> init_stop,
                   trail_stop |-> entry_trail(init_stop, entry_price),
                   atr_mult |-> c.m1_init_sl_atr,
                   max_fav_price |-> IF side > 0 THEN b.h ELSE b.l,
                   equity_entry |-> mtm_now,
                   exposure_notional |-> exposure_notional,
                   exposure_frac |-> DivEps(exposure_notional * FP, mtm_now),
                   adds_done |-> 0, last_add_price |-> entry_price,
                   acc_entry_notional |-> exposure_notional,
                   init_stop_dist |-> stop_dist,
                   pid |-> n + 1, entry_step |-> step ]),
               sized |-> <<sized>>,
               bars_since_entry |-> [since EXCEPT ![s] = 0],
               opened |-> n + 1 ]

RECURSIVE EntryLoop(_, _, _, _, _, _, _)
\* for s, side, score in candidates: open until top_k positions are held.
EntryLoop(c, csh, P, cands, since, n, log) ==
    IF cands = << >> \/ TopKReached(c, P)
    THEN [ position |-> P, sizings |-> log, bars_since_entry |-> since, opened |-> n ]
    ELSE LET r == TryEntry(c, csh, P, Head(cands)[2][1], Head(cands)[2][2], since, n)
         IN  EntryLoop(c, csh, r.position, Tail(cands), r.bars_since_entry,
                       r.opened, log \o r.sized)

\* The new entries of a rebalance tick.
Entries ==
    /\ pc = "entries"
    /\ LET r == EntryLoop(cfg, cash, position, candidates, bars_since_entry,
                          opened, << >>)
       IN  /\ position' = r.position
           /\ sizings' = r.sizings
           /\ bars_since_entry' = r.bars_since_entry
           /\ opened' = r.opened
    /\ pc' = "record"
    /\ UNCHANGED << cfg, data, all_ts, idx, cur_bar, feat, cooldown,
                    last_rebalance_step, to_close, candidates, cash, trades,
                    equity_curve >>

\* The point written over the last point of the curve.
replace_last_point(curve, t, v) ==
    IF curve = << >> THEN <<<<t, v>>>>
    ELSE [curve EXCEPT ![Len(curve)] = <<t, v>>]

\* self.equity_curve.append((ts, mtm))
append_point(curve, t, v) == Append(curve, <<t, v>>)

\* The end of a step: the mark-to-market point of the equity curve.
Record ==
    /\ pc = "record"
    /\ equity_curve' = append_point(equity_curve, ts,
                                    compute_mtm(cash, position, cur_bar))
    /\ pc' = "loop"
    /\ UNCHANGED << cfg, data, all_ts, idx, cur_bar, feat, bars_since_entry, cooldown,
                    last_rebalance_step, to_close, candidates, cash, position,
                    trades, sizings, opened >>

\* The liquidation stopped after the first position.
LiquidateFirst(c, E, todo) ==
    IF todo = << >> THEN E
    ELSE exit_position(c, E, Head(todo).symbol, cur_bar[Head(todo).symbol], "eod")

RECURSIVE Liquidate(_, _, _)
\* for s in list(self.position.keys()): self._exit_position(s, ..., 'eod')
Liquidate(c, E, todo) ==
    IF todo = << >> THEN E
    ELSE Liquidate(c, exit_position(c, E, Head(todo).symbol,
                                    cur_bar[Head(todo).symbol], "eod"),
                   Tail(todo))

\* The timestamps are exhausted: the open positions are liquidated and
\* run() returns.
Eod ==
    /\ pc = "loop"
    /\ LET E == Liquidate(cfg, [ cash |-> cash, position |-> position,
                                 trades |-> trades ], position)
       IN  /\ cash' = E.cash
           /\ position' = E.position
           /\ trades' = E.trades
    /\ pc' = "done"
    /\ UNCHANGED << cfg, data, all_ts, idx, cur_bar, feat, bars_since_entry, cooldown,
                    last_rebalance_step, to_close, candidates, equity_curve,
                    sizings, opened >>

Next ==
    \/ RunStart
    \/ NextTs
    \/ UpdateStops
    \/ CloseStops
    \/ Rebalance
    \/ NoRebalance
    \/ PyramidAdds
    \/ Entries
    \/ Record
    \/ Eod

Spec == Init /\ [][Next]_vars

\* The runs started with a structurally invalid configuration.
SpecInvalid == InitWith(InvalidConfigs) /\ [][Next]_vars

\* Configurations with a z-score threshold of half a standard deviation.
ThreshConfigs ==
    { [BaseConfig EXCEPT !.z_score_thresh = 5000, !.donchian_n = 1],
      [SlowConfig EXCEPT !.z_score_thresh = 5000] }

\* The runs started with a z-score threshold.
SpecThresh == InitWith(ThreshConfigs) /\ [][Next]_vars

\* ------------------------------------------------------------------ claims

\* The unrealized pnl of the open positions at the current closes.
Unrealized ==
    SeqSum([k \in 1..Len(position) |->
              position[k].side * position[k].qty
              * (Val(cur_bar[position[k].symbol]).c - position[k].entry_price)])

\* The close of the bar of symbol s stamped t.
CloseAt(s, t) ==
    LET k == CHOOSE j \in 1..Len(data[s]) : data[s][j].ts = t
    IN  data[s][k].c

\* The ATR of symbol s at its current bar, 0 for a missing one.
AtrOf(s) == IF IsNone(feat[s]) THEN 0 ELSE OrZero(feat[s].atr)

\* C1: at the end of every global step the point appended to equity_curve
\* carries the step's timestamp and the value cash + the sum over the open
\* positions of side * qty * (current close - entry_price).
C1_EquityIsCashPlusUnrealized ==
    (pc = "loop" /\ equity_curve # << >>) =>
        equity_curve[Len(equity_curve)] = <<ts, cash + Unrealized>>

\* A step ends with a short position that has been added to, after an exit.
C1_Witness ==
    /\ pc = "loop" /\ equity_curve # << >>
    /\ trades # << >>
    /\ \E k \in 1..Len(position) : position[k].side < 0 /\ position[k].adds_done >= 1

\* C2: cash is initial_equity plus the pnl of all trades emitted so far in
\* every state; the add loop and the entry loop leave cash unchanged, and
\* cash changes only in a step that emits a trade.
C2_CashOnlyAtClose ==
    /\ [](cash = cfg.initial_equity
                 + SeqSum([k \in 1..Len(trades) |-> trades[k].pnl]))
    /\ [][ /\ (pc \in {"adds", "entries"} => cash' = cash)
           /\ (cash' # cash => Len(trades') > Len(trades)) ]_vars

\* A position has been opened and added to after two trades were closed.
C2_Witness ==
    /\ Len(trades) >= 2
    /\ cash # cfg.initial_equity
    /\ \E k \in 1..Len(position) : position[k].adds_done >= 1

\* C3: a position's trail_stop never loosens while it is open: from any
\* state to the next it does not fall for a long and does not rise for a
\* short.
C3_TrailStopMonotone ==
    [][ \A j \in 1..Len(position) : \A k \in 1..Len(position') :
          position[j].pid = position'[k].pid =>
            IF position[j].side > 0
            THEN position'[k].trail_stop >= position[j].trail_stop
            ELSE position'[k].trail_stop <= position[j].trail_stop ]_vars

\* After a stop update a position that was added to has a stop that moved
\* away from its initial stop.
C3_Witness ==
    /\ pc = "exits"
    /\ \E k \in 1..Len(position) :
         /\ position[k].adds_done >= 1
         /\ position[k].trail_stop # position[k].init_stop

\* C4: at every sizing decision the portfolio exposure is at most
\* max_actual_leverage * equity_now.
C4_ExposureWithinCap ==
    \A k \in 1..Len(sizings) :
        sizings[k].exposure_cur * FP <= cfg.max_actual_leverage * sizings[k].mtm_now

\* C5: every trade's entry_price is on the adverse side of the close of its
\* entry bar, and its exit_price on the adverse side of the close of its
\* exit bar.
C5_SlippageAgainstTrader ==
    \A k \in 1..Len(trades) :
        LET t  == trades[k]
            ec == CloseAt(t.symbol, t.entry_ts)
            xc == CloseAt(t.symbol, t.exit_ts)
        IN  IF t.side = "long"
            THEN t.entry_price >= ec /\ t.exit_price <= xc
            ELSE t.entry_price <= ec /\ t.exit_price >= xc

\* A trade of a position that was added to, entered strictly above the
\* close of its entry bar.
C5_Witness ==
    \E k \in 1..Len(trades) :
        /\ trades[k].adds_done >= 1
        /\ trades[k].side = "long"
        /\ trades[k].entry_price > CloseAt(trades[k].symbol, trades[k].entry_ts)

\* C7: a run with a structurally invalid configuration produces no trade
\* and no equity point.
C7_InvalidConfigProducesNothing ==
    cfg \in InvalidConfigs => (trades = << >> /\ equity_curve = << >>)

\* C8: the stop update of a step leaves the trail_stop of a position whose
\* symbol has ATR <= 0 as it was.
C8_ZeroAtrKeepsStop ==
    [][ pc = "stops" =>
          \A k \in 1..Len(position) :
              AtrOf(position[k].symbol) <= 0 =>
                  position'[k].trail_stop = position[k].trail_stop ]_vars

\* C9: at a rebalance tick the add loop leaves a position of a symbol with
\* ATR <= 0 as it was, and the entry loop opens no position in such a
\* symbol.
C9_ZeroAtrNoFill ==
    [][ /\ pc = "adds" =>
             \A k \in 1..Len(position) :
                 AtrOf(position[k].symbol) <= 0 => position'[k] = position[k]
        /\ pc = "entries" =>
             \A s \in Syms :
                 (AtrOf(s) <= 0 /\ ~Held(position, s)) => ~Held(position', s) ]_vars

\* The entry loop has passed over a candidate with ATR 0 and has opened
\* the candidate that follows it.
C9_Witness ==
    /\ pc = "record"
    /\ \E i \in 1..Len(candidates) : \E j \in 1..Len(candidates) :
         /\ i < j
         /\ AtrOf(candidates[i][2][1]) <= 0
         /\ ~Held(position, candidates[i][2][1])
         /\ \E k \in 1..Len(sizings) :
              /\ sizings[k].kind = "entry"
              /\ sizings[k].symbol = candidates[j][2][1]
              /\ sizings[k].final_notional > 0

\* The last bar read of symbol s.
LastBar(s) == data[s][Len(data[s])]

\* How far run() has come: the timestamps consumed, then the place in the
\* loop body.
Progress ==
    8 * Len(all_ts)
    + (CASE pc = "constructed" -> 0 [] pc = "loop" -> 8 [] pc = "stops" -> 2
         [] pc = "exits" -> 3 [] pc = "rebalance" -> 4 [] pc = "adds" -> 5
         [] pc = "entries" -> 6 [] pc = "record" -> 7 [] pc = "done" -> 9)

\* The guard of one of the steps of run() holds.
CanStep ==
    \/ pc \in {"constructed", "loop", "stops", "exits", "adds", "entries", "record"}
    \/ pc = "rebalance" /\ (IsRebalanceTick \/ ~IsRebalanceTick)

\* C10: the step in which run() returns empties the position map, closing
\* each open position with one trade of reason eod at the last bar of its
\* symbol; and run() returns on every finite input: until it has returned
\* it can take a step, and every step brings it closer to the end of the
\* timestamps.
C10_EodLiquidation ==
    /\ [](pc = "done" \/ CanStep)
    /\ [](Len(all_ts) <= MaxSteps /\ Progress <= 8 * MaxSteps + 9)
    /\ [][Progress' > Progress]_vars
    /\ [][ pc' = "done" =>
             /\ position' = << >>
             /\ Len(trades') = Len(trades) + Len(position)
             /\ \A k \in 1..Len(position) :
                  LET t == trades'[Len(trades) + k]
                  IN  /\ t.pid = position[k].pid
                      /\ t.symbol = position[k].symbol
                      /\ t.reason = "eod"
                      /\ t.exit_ts = LastBar(t.symbol).ts ]_vars

\* run() has returned after liquidating two positions.
C10_Witness ==
    /\ pc = "done"
    /\ Cardinality({ k \in 1..Len(trades) : trades[k].reason = "eod" }) >= 2

\* The pids of the open positions and of the trades.
OpenPids == { position[k].pid : k \in 1..Len(position) }
ClosedPids == { trades[k].pid : k \in 1..Len(trades) }

\* The trades appended by the step.
NewTrades == { j \in 1..Len(trades') : j > Len(trades) }

\* C11: a symbol has at most one open position; every position opened so
\* far is either open or the source of exactly one trade, never both; the
\* trade list only grows; a position leaves the map only in a step that
\* appends its trade, with its symbol, side and entry_ts, and every trade
\* appended is that of a position that was open; a closed position does not
\* come back.
C11_PositionLifecycle ==
    /\ [](/\ \A j \in 1..Len(position) : \A k \in 1..Len(position) :
                position[j].symbol = position[k].symbol => j = k
          /\ OpenPids \cup ClosedPids = 1..opened
          /\ OpenPids \cap ClosedPids = {}
          /\ Cardinality(ClosedPids) = Len(trades))
    /\ [][ /\ Len(trades') >= Len(trades)
           /\ SubSeq(trades', 1, Len(trades)) = trades
           /\ \A k \in 1..Len(position) :
                (\A j \in 1..Len(position') : position'[j].pid # position[k].pid) =>
                    \E j \in NewTrades :
                        /\ trades'[j].pid = position[k].pid
                        /\ trades'[j].symbol = position[k].symbol
                        /\ trades'[j].side = (IF position[k].side > 0 THEN "long" ELSE "short")
                        /\ trades'[j].entry_ts = position[k].entry_ts
           /\ \A j \in NewTrades :
                \E k \in 1..Len(position) : position[k].pid = trades'[j].pid
           /\ \A j \in 1..Len(position') :
                position'[j].pid \notin ClosedPids ]_vars

\* A symbol whose position was closed holds a new position.
C11_Witness ==
    \E j \in 1..Len(trades) : \E k \in 1..Len(position) :
        /\ trades[j].symbol = position[k].symbol
        /\ trades[j].pid < position[k].pid

\* C12: the number of open positions never exceeds top_k, and a step that
\* opens a position starts with fewer than top_k open positions.
C12_AtMostTopK ==
    /\ [](Len(position) <= cfg.top_k)
    /\ [][Len(position') > Len(position) => Len(position) < cfg.top_k]_vars

\* The entry loop has stopped at top_k = 1 before a candidate that is not
\* held and has a positive ATR.
C12_Witness ==
    /\ pc = "record"
    /\ cfg.top_k = 1
    /\ Len(position) = 1
    /\ \E j \in 1..Len(candidates) :
         /\ ~Held(position, candidates[j][2][1])
         /\ AtrOf(candidates[j][2][1]) > 0

\* The exposure of the open positions at the current closes.
ExposureNow ==
    SeqSum([k \in 1..Len(position) |->
              Abs(position[k].qty * Val(cur_bar[position[k].symbol]).c)])

\* A position's side disagrees with the sign of the current ret_L of its
\* symbol.
Misaligned(p) ==
    /\ ~IsNone(feat[p.symbol].ret_L)
    /\ \/ p.side > 0 /\ Val(feat[p.symbol].ret_L) < 0
       \/ p.side < 0 /\ Val(feat[p.symbol].ret_L) > 0

\* C13: the first part of a rebalance tick closes every misaligned position
\* with reason alignment_lost and leaves none open; the add loop and the
\* entry loop that follow close nothing, and the first sizing decision of
\* each of them uses the equity and the exposure of the positions left.
C13_AlignmentExitsFirst ==
    [][ /\ (pc = "rebalance" /\ pc' = "adds") =>
             /\ \A k \in 1..Len(position) :
                  Misaligned(position[k]) =>
                      \E j \in NewTrades :
                          /\ trades'[j].pid = position[k].pid
                          /\ trades'[j].reason = "alignment_lost"
             /\ \A j \in NewTrades : trades'[j].reason = "alignment_lost"
             /\ \A k \in 1..Len(position') : ~Misaligned(position'[k])
        /\ pc \in {"adds", "entries"} =>
             /\ trades' = trades
             /\ \A k \in 1..Len(position) : ~Misaligned(position[k])
             /\ sizings' # << >> =>
                  /\ sizings'[1].mtm_now = cash + Unrealized
                  /\ sizings'[1].exposure_cur = ExposureNow ]_vars

\* An entry has been sized at the tick of an alignment exit, with another
\* position open.
C13_Witness ==
    /\ pc = "record"
    /\ trades # << >>
    /\ trades[Len(trades)].reason = "alignment_lost"
    /\ trades[Len(trades)].exit_step = step
    /\ \E k \in 1..Len(sizings) : sizings[k].exposure_cur > 0

\* C14: the rebalance logic runs at a global step exactly when the step is
\* a multiple of rebalance_every.
C14_RebalanceOnGlobalSteps ==
    [][ pc = "rebalance" =>
          (pc' = "adds" <=> step % cfg.rebalance_every = 0) ]_vars

\* The second rebalance of a run with rebalance_every = 2, at global step
\* 2, the first symbol having fewer bars than there are global steps.
C14_Witness ==
    /\ pc = "adds"
    /\ cfg.rebalance_every = 2
    /\ step = 2
    /\ Len(data[1]) < Len(all_ts)

\* C15: the stop update lists a position for exit once with reason
\* trail_stop if its stop is breached on the current bar, once with reason
\* time_stop if it is not breached and bars_since_entry >= time_stop_bars,
\* and not at all otherwise; the exits that follow close exactly the
\* positions listed, each with the reason listed.
C15_StopBeforeTime ==
    [][ /\ pc = "stops" =>
             \A k \in 1..Len(position) :
                 LET p == position'[k]
                     b == Val(cur_bar[p.symbol])
                     hit == IF p.side > 0 THEN b.l <= p.trail_stop
                            ELSE b.h >= p.trail_stop
                     timed == bars_since_entry[p.symbol] >= cfg.time_stop_bars
                     mine == { j \in 1..Len(to_close') : to_close'[j][1] = p.symbol }
                 IN  /\ Cardinality(mine) <= 1
                     /\ hit => \E j \in mine : to_close'[j][2] = "trail_stop"
                     /\ (~hit /\ timed) => \E j \in mine : to_close'[j][2] = "time_stop"
                     /\ (~hit /\ ~timed) => mine = {}
        /\ pc = "exits" =>
             /\ Len(trades') = Len(trades) + Len(to_close)
             /\ \A j \in 1..Len(to_close) :
                  /\ trades'[Len(trades) + j].symbol = to_close[j][1]
                  /\ trades'[Len(trades) + j].reason = to_close[j][2] ]_vars

\* A position is listed for exit with a breached stop and its time used up.
C15_Witness ==
    /\ pc = "exits"
    /\ \E j \in 1..Len(to_close) :
         /\ to_close[j][2] = "trail_stop"
         /\ bars_since_entry[to_close[j][1]] >= cfg.time_stop_bars

\* C16: adds_done of every open position is between 0 and pyramid_max_adds;
\* from a state to the next, adds_done of a position that stays open does
\* not fall, changes only in the add loop of a rebalance tick and there
\* grows by at most 1, and grows by 1 exactly when the loop fills an add
\* for the position's symbol; the position's quantity never falls and
\* changes only in the add loop.
C16_OneAddPerTick ==
    /\ [](\A k \in 1..Len(position) :
            position[k].adds_done >= 0 /\ position[k].adds_done <= cfg.pyramid_max_adds)
    /\ [][ \A j \in 1..Len(position) : \A k \in 1..Len(position') :
             position[j].pid = position'[k].pid =>
                 /\ position'[k].adds_done >= position[j].adds_done
                 /\ position'[k].adds_done <= position[j].adds_done + 1
                 /\ (pc # "adds" => /\ position'[k].adds_done = position[j].adds_done
                                    /\ position'[k].qty = position[j].qty)
                 /\ (pc = "adds" =>
                       (position'[k].adds_done = position[j].adds_done + 1
                          <=> \E i \in 1..Len(sizings') :
                                 /\ sizings'[i].kind = "add"
                                 /\ sizings'[i].symbol = position[j].symbol
                                 /\ sizings'[i].final_notional > 0))
                 /\ position'[k].qty >= position[j].qty ]_vars

\* The add loop has added to a position.
C16_Witness ==
    /\ pc = "entries"
    /\ \E k \in 1..Len(position) : position[k].adds_done = 1
    /\ \E k \in 1..Len(sizings) : sizings[k].kind = "add" /\ sizings[k].final_notional > 0

\* A pool momentum of symbol s is null at its current bar.
PoolMomentumNull(s) ==
    IsNone(feat[s]) \/ IsNone(feat[s].momL1) \/ IsNone(feat[s].momL2)

\* C17: at a rebalance tick the pool holds no symbol with a null momL1 or
\* momL2, and the entry loop opens no position in such a symbol.
C17_PoolNeedsPoolMomenta ==
    /\ [](pc \in {"adds", "entries"} =>
            \A s \in PoolSet(cfg, ValSyms) : ~PoolMomentumNull(s))
    /\ [][ pc = "entries" =>
             \A s \in Syms :
                 (PoolMomentumNull(s) /\ ~Held(position, s)) => ~Held(position', s) ]_vars

\* Symbol s has at its current bar the features a position of side sd is
\* tested with.
FeaturesPresent(s, sd) ==
    /\ ~IsNone(feat[s])
    /\ ~IsNone(feat[s].mom1) /\ ~IsNone(feat[s].mom2) /\ ~IsNone(feat[s].ret_L)
    /\ IF sd > 0 THEN ~IsNone(feat[s].don_hi) ELSE ~IsNone(feat[s].don_lo)

\* C18: the add loop changes only positions whose symbol has mom1, mom2,
\* ret_L and the Donchian level of the position's side present, and the
\* entry loop opens only positions of such symbols.
C18_NullFeatureIneligible ==
    [][ /\ pc = "adds" =>
             \A k \in 1..Len(position) :
                 position'[k] # position[k] =>
                     FeaturesPresent(position[k].symbol, position[k].side)
        /\ pc = "entries" =>
             \A k \in 1..Len(position') :
                 ~Held(position, position'[k].symbol) =>
                     FeaturesPresent(position'[k].symbol, position'[k].side) ]_vars

\* The entry loop has opened a position while the other symbol, with a bar,
\* a return beyond theta_ret and a positive ATR, has no mom1 yet and stays
\* closed.
C18_Witness ==
    /\ pc = "record"
    /\ \E k \in 1..Len(sizings) : sizings[k].kind = "entry" /\ sizings[k].final_notional > 0
    /\ \E s \in Syms :
         /\ ~IsNone(cur_bar[s])
         /\ IsNone(feat[s].mom1)
         /\ ~IsNone(feat[s].ret_L)
         /\ Abs(Val(feat[s].ret_L)) > cfg.theta_ret
         /\ AtrOf(s) > 0
         /\ ~Held(position, s)

\* C19: a step that closes a position at a loss with reason trail_stop,
\* time_stop or alignment_lost leaves the cooldown of its symbol at
\* cooldown_bars or more.
C19_LosingExitSetsCooldown ==
    [][ \A j \in NewTrades :
          (/\ trades'[j].pnl < 0
           /\ trades'[j].reason \in {"trail_stop", "time_stop", "alignment_lost"}) =>
              cooldown'[trades'[j].symbol] >= cfg.cooldown_bars ]_vars

\* C20: the entry loop opens no position in a symbol that had a losing
\* trail_stop or time_stop exit at one of the last cooldown_bars global
\* steps, the current one included.
C20_NoEntryDuringCooldown ==
    [][ pc = "entries" =>
          \A k \in 1..Len(position') :
              ~Held(position, position'[k].symbol) =>
                  \A j \in 1..Len(trades) :
                      (/\ trades[j].symbol = position'[k].symbol
                       /\ trades[j].pnl < 0
                       /\ trades[j].reason \in {"trail_stop", "time_stop"}) =>
                          step >= trades[j].exit_step + cfg.cooldown_bars ]_vars

\* The position of P carrying the serial number n.
PosOfPid(P, n) == P[CHOOSE k \in 1..Len(P) : P[k].pid = n]

\* The sum of the pnl of the trades appended by the step.
NewPnl == SeqSum([j \in 1..(Len(trades') - Len(trades)) |->
                    trades'[Len(trades) + j].pnl])

\* C21: with slippage_bps = 0 and fee_rate = 0, a trade closed without a
\* pyramid add has pnl = side * qty * (close of its exit bar - close of its
\* entry bar), and the step that closes trades moves the cash by exactly
\* their pnl.
C21_CostFreePnl ==
    [][ (cfg.slippage_bps = 0 /\ cfg.fee_rate = 0) =>
          /\ \A j \in NewTrades :
               LET t == trades'[j]
               IN  t.adds_done = 0 =>
                     t.pnl = (IF t.side = "long" THEN 1 ELSE -1) * t.qty
                             * (CloseAt(t.symbol, t.exit_ts)
                                - CloseAt(t.symbol, t.entry_ts))
          /\ cash' - cash = NewPnl ]_vars

\* A cost-free short without adds is closed with a loss, and the cash is the
\* initial equity plus the pnl of the trades.
C21_Witness ==
    /\ cfg.slippage_bps = 0 /\ cfg.fee_rate = 0
    /\ \E j \in 1..Len(trades) :
         /\ trades[j].adds_done = 0 /\ trades[j].side = "short" /\ trades[j].pnl < 0
         /\ CloseAt(trades[j].symbol, trades[j].exit_ts)
            > CloseAt(trades[j].symbol, trades[j].entry_ts)
    /\ cash = cfg.initial_equity + SeqSum([i \in 1..Len(trades) |-> trades[i].pnl])

\* C22: the fee of a position is charged once, in its exit: the trade's fees
\* are fee_rate * (accumulated entry notional + |qty * exit_price|) and its
\* pnl is the gross result less these fees; the accumulated entry notional
\* is |qty * fill price| of the entry plus |added qty * fill price| of every
\* add; an entry or an add leaves the cash as it is.
C22_FeesOnceAtExit ==
    [][ /\ \A j \in NewTrades :
             LET t == trades'[j]
                 pos == PosOfPid(position, t.pid)
             IN  /\ t.fees = (cfg.fee_rate
                              * (pos.acc_entry_notional + Abs(t.qty * t.exit_price)))
                             \div FP
                 /\ t.pnl = (IF t.side = "long" THEN 1 ELSE -1) * t.qty
                            * (t.exit_price - t.entry_price) - t.fees
        /\ pc \in {"adds", "entries"} =>
             /\ cash' = cash
             /\ \A k \in 1..Len(position') :
                  LET q == position'[k]
                  IN  IF q.pid \in OpenPids
                      THEN LET p == PosOfPid(position, q.pid)
                           IN  q.acc_entry_notional =
                                 p.acc_entry_notional
                                 + Abs((q.qty - p.qty) * q.last_add_price)
                                   * (q.adds_done - p.adds_done)
                      ELSE q.acc_entry_notional = Abs(q.qty * q.entry_price) ]_vars

\* A position that was added to is closed and pays a fee.
C22_Witness ==
    \E j \in 1..Len(trades) :
        /\ trades[j].adds_done >= 1
        /\ trades[j].fees > 0
        /\ trades[j].pnl < (IF trades[j].side = "long" THEN 1 ELSE -1) * trades[j].qty
                           * (trades[j].exit_price - trades[j].entry_price)

\* The configurations that differ from the run's in roi_mode and/or
\* report_leverage only.
RoiVariants ==
    { [cfg EXCEPT !.roi_mode = m, !.report_leverage = l] :
        m \in {"notional", "margin", "equity"},
        l \in {cfg.report_leverage, 30000} } \ {cfg}

\* A trade list with the pnl_pct of every trade blanked.
Blind(tr) == [k \in 1..Len(tr) |-> [tr[k] EXCEPT !.pnl_pct = 0]]

\* The engine fields a step works on, as a run that differs in the reporting
\* configuration holds them: equal but for the pnl_pct of its past trades.
Engine3 == [ cash |-> cash, position |-> position, trades |-> trades ]
Engine3Blind == [ cash |-> cash, position |-> position, trades |-> Blind(trades) ]

\* C23: roi_mode and report_leverage are a pure reporting transform.  Stated
\* as the step-wise condition that makes two runs on the same bars agree: in
\* every step that reads the configuration, the step computed with any
\* configuration that differs in roi_mode and/or report_leverage only, from
\* a state that differs in the pnl_pct of its past trades only, yields the
\* same stops, exit list, cash, positions, cooldowns, counters, candidates
\* and sizings, and the same trades in every field except pnl_pct; the
\* equity point recorded is computed from cash, positions and bars alone.
C23_RoiModeOnlyReporting ==
    [][ \A c2 \in RoiVariants :
          /\ pc = "stops" =>
               \A k \in 1..Len(position) :
                 LET p == position[k]
                     u == StopUpdate(c2, p, Val(cur_bar[p.symbol]),
                                     Feat(p.symbol).atr, bars_since_entry[p.symbol])
                 IN  /\ position'[k] = u.pos
                     /\ u.reason # "" <=>
                          \E j \in 1..Len(to_close') : to_close'[j] = <<p.symbol, u.reason>>
          /\ pc = "exits" =>
               LET E == CloseAll(c2, [ cash |-> cash, position |-> position,
                                       trades |-> Blind(trades), cooldown |-> cooldown,
                                       bars_since_entry |-> bars_since_entry ],
                                 to_close)
               IN  /\ cash' = E.cash /\ position' = E.position
                   /\ Blind(trades') = Blind(E.trades)
                   /\ cooldown' = E.cooldown
                   /\ bars_since_entry' = E.bars_since_entry
          /\ (pc = "rebalance" /\ pc' = "adds") =>
               LET E == CloseMisaligned(c2, [ cash |-> cash, position |-> position,
                                              trades |-> Blind(trades),
                                              bars_since_entry |-> bars_since_entry ],
                                        position)
               IN  /\ cash' = E.cash /\ position' = E.position
                   /\ Blind(trades') = Blind(E.trades)
                   /\ bars_since_entry' = E.bars_since_entry
                   /\ candidates' = Candidates(c2, CooldownTick(cooldown))
          /\ pc = "adds" =>
               LET r == AddLoop(c2, cash, position, 1, << >>)
               IN  position' = r.position /\ sizings' = r.sizings
          /\ pc = "entries" =>
               LET r == EntryLoop(c2, cash, position, candidates, bars_since_entry,
                                  opened, << >>)
               IN  /\ position' = r.position /\ sizings' = r.sizings
                   /\ bars_since_entry' = r.bars_since_entry
          /\ pc = "record" =>
               equity_curve' = Append(equity_curve, <<ts, cash + Unrealized>>)
          /\ (pc = "loop" /\ pc' = "done") =>
               LET E == Liquidate(c2, Engine3Blind, position)
               IN  /\ cash' = E.cash /\ position' = E.position
                   /\ Blind(trades') = Blind(E.trades)
                   /\ equity_curve' = equity_curve ]_vars

\* A stop exit is due whose trade gets another pnl_pct, and nothing else
\* different, under a configuration that differs in the reporting only.
C23_Witness ==
    /\ pc = "exits" /\ to_close # << >>
    /\ \E c2 \in RoiVariants :
         LET E  == exit_position(cfg, Engine3, to_close[1][1],
                                 cur_bar[to_close[1][1]], to_close[1][2])
             E2 == exit_position(c2, Engine3, to_close[1][1],
                                 cur_bar[to_close[1][1]], to_close[1][2])
         IN  /\ E2.trades[Len(E2.trades)].pnl_pct # E.trades[Len(E.trades)].pnl_pct
             /\ E.trades[Len(E.trades)].pnl # 0
             /\ Blind(E2.trades) = Blind(E.trades)

\* C24: every trade carries one of the four exit reasons; a trade with
\* reason alignment_lost is appended only by the first part of a rebalance
\* tick, for a long whose current ret_L is strictly negative or a short
\* whose current ret_L is strictly positive; so a long whose ret_L is absent
\* or >= 0 at the tick stays open through it.
C24_ExitReasons ==
    [][ /\ \A j \in 1..Len(trades') :
             trades'[j].reason \in {"trail_stop", "alignment_lost", "time_stop", "eod"}
        /\ \A j \in NewTrades :
             trades'[j].reason = "alignment_lost" =>
               /\ pc = "rebalance" /\ pc' = "adds" /\ IsRebalanceTick
               /\ LET r == feat[trades'[j].symbol].ret_L
                  IN  /\ ~IsNone(r)
                      /\ trades'[j].side = "long" => Val(r) < 0
                      /\ trades'[j].side = "short" => Val(r) > 0
        /\ pc = "rebalance" =>
             \A k \in 1..Len(position) :
               LET p == position[k]
                   r == feat[p.symbol].ret_L
               IN  (IsNone(r) \/ (p.side > 0 /\ Val(r) >= 0)
                              \/ (p.side < 0 /\ Val(r) <= 0)) =>
                     \E i \in 1..Len(position') : position'[i].pid = p.pid ]_vars

\* A rebalance tick has closed a long with alignment_lost and kept a
\* position whose ret_L agrees with its side.
C24_Witness ==
    /\ pc = "adds"
    /\ trades # << >>
    /\ LET t == trades[Len(trades)]
       IN  /\ t.reason = "alignment_lost" /\ t.side = "long" /\ t.exit_step = step
           /\ Val(feat[t.symbol].ret_L) < 0
    /\ position # << >>

\* The number of the bars of a series stamped t or earlier.
CountAtOrBefore(bars, t) == Cardinality({ k \in 1..Len(bars) : bars[k].ts <= t })

\* The latest bar of a series stamped t or earlier, if any.
LatestAtOrBefore(bars, t) ==
    LET K == { k \in 1..Len(bars) : bars[k].ts <= t }
    IN  IF K = {} THEN None
        ELSE Some(bars[CHOOSE k \in K : \A j \in K : bars[j].ts <= bars[k].ts])

\* C25: at every global step the current bar of a symbol is its latest bar
\* stamped at or before the step's timestamp (none if it has none), never a
\* later one; a step in which the symbol has no new bar leaves its cursor
\* and current bar as they are; and with the whole series loaded (looked at
\* whenever a timestamp has been consumed), the cursor at any earlier
\* timestamp stops before the later bars and the features read at the
\* current bar's index are those of the series cut at that bar.
C25_NoLookahead ==
    /\ [](all_ts # << >> =>
            \A s \in Syms :
              /\ cur_bar[s] = LatestAtOrBefore(data[s], ts)
              /\ idx[s] = CountAtOrBefore(data[s], ts)
              /\ ~IsNone(cur_bar[s]) => Val(cur_bar[s]).ts <= ts
              /\ \A t0 \in (IF pc = "stops" THEN 1..Len(all_ts) ELSE {}) :
                   LET n0 == CountAtOrBefore(data[s], t0 - 1)
                       n1 == CountAtOrBefore(data[s], t0)
                       a  == AdvanceCursor(data[s], n0,
                                           LatestAtOrBefore(data[s], t0 - 1), t0)
                   IN  /\ a.idx = n1
                       /\ a.cur_bar = LatestAtOrBefore(data[s], t0)
                       /\ n1 >= 1 =>
                            Features(cfg, data[s], n1)
                            = Features(cfg, SubSeq(data[s], 1, n1), n1))
    /\ [][ \A s \in Syms :
             (pc = "loop" /\ pc' = "stops" /\ data'[s] = data[s]) =>
               (idx'[s] = idx[s] /\ cur_bar'[s] = cur_bar[s] /\ feat'[s] = feat[s]) ]_vars

\* A symbol with two bars has none at the third timestamp: its current bar
\* is the stale second one, and the other symbol's is the fresh one.
C25_Witness ==
    /\ Len(all_ts) >= 3 /\ pc = "stops"
    /\ Len(data[1]) >= 2
    /\ Val(cur_bar[1]).ts < ts
    /\ Val(cur_bar[2]).ts = ts
    /\ ~IsNone(feat[1]) /\ ~IsNone(feat[1].ret_L)

\* C26: equity_curve holds one point per completed global step, stamped with
\* the steps' timestamps in strictly ascending order; it changes only by the
\* append that ends a step, after the step's exits, adds and entries, which
\* keeps the earlier points; the liquidation at the end of the run leaves
\* it as it is.
C26_EquityCurvePerStep ==
    /\ [](/\ Len(equity_curve) = (IF pc \in {"constructed", "loop", "done"}
                                  THEN Len(all_ts) ELSE Len(all_ts) - 1)
          /\ \A k \in 1..Len(equity_curve) : equity_curve[k][1] = all_ts[k]
          /\ \A k \in 1..(Len(equity_curve) - 1) :
               equity_curve[k][1] < equity_curve[k + 1][1])
    /\ [][ /\ equity_curve' # equity_curve =>
                /\ pc = "record" /\ pc' = "loop"
                /\ Len(equity_curve') = Len(equity_curve) + 1
                /\ SubSeq(equity_curve', 1, Len(equity_curve)) = equity_curve
                /\ equity_curve'[Len(equity_curve')][1] = ts
                /\ UNCHANGED << cash, position, trades >>
           /\ pc = "record" => equity_curve' # equity_curve
           /\ pc' = "done" => equity_curve' = equity_curve ]_vars

\* The run has returned after three steps or more; its liquidation closed a
\* position at a cost, and the last point of the curve is the step's, not
\* the cash after the liquidation.
C26_Witness ==
    /\ pc = "done"
    /\ Len(equity_curve) >= 3
    /\ trades # << >>
    /\ trades[Len(trades)].reason = "eod"
    /\ equity_curve[Len(equity_curve)] # <<ts, cash>>

\* C27: in every global step the stop updates come first and the positions
\* they mark are closed, each with its trade of reason trail_stop or
\* time_stop, before the step's rebalance logic starts; through the
\* alignment exits, the add loop and the entry loop of the step none of the
\* symbols closed by a stop is held, the first sizing of the add loop and of
\* the entry loop values equity and exposure over the positions still open,
\* and the entry loop counts only these against top_k.
C27_StopsBeforeRebalance ==
    [][ /\ pc = "stops" => pc' = "exits"
        /\ pc = "exits" =>
             /\ pc' = "rebalance"
             /\ Len(trades') = Len(trades) + Len(to_close)
             /\ \A j \in 1..Len(to_close) :
                  /\ Held(position, to_close[j][1])
                  /\ ~Held(position', to_close[j][1])
                  /\ to_close[j][2] \in {"trail_stop", "time_stop"}
                  /\ LET t == trades'[Len(trades) + j]
                     IN  /\ t.symbol = to_close[j][1] /\ t.reason = to_close[j][2]
                         /\ t.pid \in OpenPids
        /\ pc \in {"rebalance", "adds", "entries"} =>
             /\ \A j \in 1..Len(to_close) : ~Held(position, to_close[j][1])
             /\ \A k \in 1..Len(position) :
                  \A j \in 1..Len(trades) : trades[j].pid # position[k].pid
        /\ (pc \in {"adds", "entries"} /\ sizings' # << >>) =>
             /\ sizings'[1].mtm_now = cash + Unrealized
             /\ sizings'[1].exposure_cur = ExposureNow
        /\ (pc = "entries" /\ Len(position') > Len(position)) =>
             /\ Len(position) < cfg.top_k
             /\ Len(position') <= cfg.top_k ]_vars

\* With top_k = 1 a position is closed by a stop and another one is opened
\* in the same global step.
C27_Witness ==
    /\ pc = "record"
    /\ cfg.top_k = 1
    /\ \E j \in 1..Len(trades) :
         /\ trades[j].exit_step = step
         /\ trades[j].reason \in {"trail_stop", "time_stop"}
    /\ Len(position) = 1
    /\ position[1].entry_step = step

\* The bound on the notional of the fill a sizing decision is about: both
\* caps for an entry, the portfolio headroom and what the per-symbol cap
\* leaves above the notional already held for an add.
FillBound(z) ==
    LET headroom == Max(0, (cfg.max_actual_leverage * z.mtm_now) \div FP
                           - z.exposure_cur)
        per_symbol == (cfg.per_symbol_exposure_max * z.mtm_now) \div FP
    IN  IF z.kind = "entry" THEN Min(per_symbol, headroom)
        ELSE Min(headroom, per_symbol - z.held_notional)

\* A position after the add loop or the entry loop is as it was before, or
\* a sizing decision of the loop has filled an add to it or its entry.
FilledOrKept(q, log) ==
    \/ q.pid \in OpenPids /\ PosOfPid(position, q.pid) = q
    \/ \E i \in 1..Len(log) :
         /\ log[i].symbol = q.symbol
         /\ log[i].final_notional > 0
         /\ log[i].kind = "add" <=> q.pid \in OpenPids

C29_AddNeedsBreakoutAndStep ==
    [][ /\ \A k \in 1..Len(position') :
             LET q == position'[k]
             IN  /\ q.adds_done = 0 =>
                      q.last_add_price = q.entry_price
                 /\ (q.pid \in OpenPids
                     /\ q.adds_done # PosOfPid(position, q.pid).adds_done) =>
                      LET p == PosOfPid(position, q.pid)
                          f == feat[p.symbol]
                          b == Val(cur_bar[p.symbol])
                          need == (cfg.pyramid_step_atr * OrZero(f.atr)) \div FP
                          slip == (b.c * cfg.slippage_bps) \div 10000
                      IN  /\ pc = "adds" /\ last_rebalance_step = step
                          /\ q.adds_done = p.adds_done + 1
                          /\ ~IsNone(f.ret_L)
                          /\ p.side > 0 =>
                               /\ Val(f.ret_L) > cfg.theta_ret
                               /\ ~IsNone(f.don_hi) /\ b.c >= Val(f.don_hi)
                               /\ b.c >= p.last_add_price + need
                               /\ q.last_add_price = b.c + slip
                          /\ p.side < 0 =>
                               /\ Val(f.ret_L) < -cfg.theta_ret
                               /\ ~IsNone(f.don_lo) /\ b.c <= Val(f.don_lo)
                               /\ b.c <= p.last_add_price - need
                               /\ q.last_add_price = b.c - slip ]_vars

\* A short has been added to at a close a pyramid step or more below its
\* entry fill, and its last_add_price is the add's fill price, below the
\* averaged entry price.
C29_Witness ==
    /\ pc = "entries"
    /\ \E k \in 1..Len(position) :
         LET p == position[k]
         IN  /\ p.side < 0 /\ p.adds_done = 1 /\ p.qty > 0
             /\ p.last_add_price < p.entry_price
             /\ p.last_add_price = FillPrice(cfg, -1, Val(cur_bar[p.symbol]).c)
             /\ cfg.pyramid_step_atr > 0 /\ AtrOf(p.symbol) > 0

\* C30: bars_since_entry of an open position is the number of global steps
\* since the step of its entry: 0 at the entry and one more with every later
\* global step, also when the symbol has no new bar; so with
\* time_stop_bars >= 1 a position is open after the stop exits of a step
\* only if fewer than time_stop_bars steps have passed since its entry: at
\* the step entry_step + time_stop_bars it is due with time_stop or
\* trail_stop, and no trade is closed later than that.
C30_TimeStopByGlobalSteps ==
    /\ [](\A k \in 1..Len(position) :
            LET p == position[k]
            IN  /\ bars_since_entry[p.symbol] = step - p.entry_step
                /\ (cfg.time_stop_bars >= 1 /\ pc \notin {"stops", "exits"}) =>
                     step - p.entry_step < cfg.time_stop_bars
                /\ (cfg.time_stop_bars >= 1 /\ pc = "exits"
                    /\ step - p.entry_step >= cfg.time_stop_bars) =>
                     /\ step - p.entry_step = cfg.time_stop_bars
                     /\ \E j \in 1..Len(to_close) :
                          /\ to_close[j][1] = p.symbol
                          /\ to_close[j][2] \in {"time_stop", "trail_stop"})
    /\ [][ /\ (pc = "loop" /\ pc' = "stops") =>
                \A s \in Syms :
                  Held(position, s) => bars_since_entry'[s] = bars_since_entry[s] + 1
           /\ \A j \in NewTrades :
                /\ trades'[j].exit_step - PosOfPid(position, trades'[j].pid).entry_step
                   <= cfg.time_stop_bars
                /\ trades'[j].reason = "time_stop" =>
                     trades'[j].exit_step
                     = PosOfPid(position, trades'[j].pid).entry_step
                       + cfg.time_stop_bars ]_vars

\* A position is closed with time_stop at a global step in which its symbol
\* has no new bar.
C30_Witness ==
    \E j \in 1..Len(trades) :
        /\ trades[j].reason = "time_stop"
        /\ trades[j].exit_ts < trades[j].exit_step + 1
        /\ cfg.time_stop_bars >= 1

\* The breakeven condition of a position on the current bar of its symbol.
BreakevenReached(p) ==
    LET b == Val(cur_bar[p.symbol])
        a == AtrOf(p.symbol)
        move == IF p.side > 0 THEN b.c - p.entry_price ELSE p.entry_price - b.c
    IN  /\ p.adds_done >= cfg.be_after_adds
        /\ a > 0
        /\ move >= (((cfg.be_rr * p.atr_mult) \div FP) * a) \div FP

\* The stop of a position after a stop update without the breakeven ratchet:
\* the trailing level and, after lock_after_adds adds, the lock level.
StopWithoutBreakeven(p) ==
    LET b == Val(cur_bar[p.symbol])
        a == AtrOf(p.symbol)
        mf == IF p.side > 0 THEN Max(p.max_fav_price, b.h) ELSE Min(p.max_fav_price, b.l)
        trail == mf - p.side * ((cfg.m2_trail_sl_atr * a) \div FP)
        lock == p.last_add_price - p.side * ((cfg.lock_atr_mult * a) \div FP)
        locked == p.adds_done >= cfg.lock_after_adds /\ a > 0 /\ p.last_add_price # 0
        s1 == IF p.side > 0 THEN Max(p.trail_stop, trail) ELSE Min(p.trail_stop, trail)
    IN  IF ~locked THEN s1
        ELSE IF p.side > 0 THEN Max(s1, lock) ELSE Min(s1, lock)

\* C31: the stop update of a position with adds_done >= be_after_adds,
\* ATR > 0 and a favourable move of the close of at least
\* be_rr * atr_mult * ATR leaves its trail_stop at breakeven or tighter
\* (>= entry_price for a long, <= entry_price for a short); with
\* adds_done < be_after_adds the stop is the one the trailing and lock
\* levels alone give.
C31_BreakevenRatchet ==
    [][ pc = "stops" =>
          \A k \in 1..Len(position) :
            LET p == position[k]
                q == position'[k]
            IN  /\ q.pid = p.pid
                /\ BreakevenReached(p) =>
                     IF p.side > 0 THEN q.trail_stop >= p.entry_price
                     ELSE q.trail_stop <= p.entry_price
                /\ p.adds_done < cfg.be_after_adds =>
                     q.trail_stop = StopWithoutBreakeven(p) ]_vars

\* A long whose trailing level is below its entry price has its stop at the
\* entry price after the stop update, the breakeven condition holding.
C31_Witness ==
    /\ pc = "exits"
    /\ \E k \in 1..Len(position) :
         LET p == position[k]
         IN  /\ p.side > 0
             /\ BreakevenReached(p)
             /\ p.trail_stop = p.entry_price
             /\ p.max_fav_price - Mul(cfg.m2_trail_sl_atr, AtrOf(p.symbol)) < p.entry_price
             /\ p.init_stop < p.entry_price

\* The global step under way is no rebalance tick: fewer than
\* rebalance_every steps lie between it and the last tick.
OffTick ==
    /\ all_ts # << >>
    /\ \/ pc \in {"stops", "exits", "rebalance"}
          /\ step - last_rebalance_step < cfg.rebalance_every
       \/ pc = "record" /\ last_rebalance_step # step

\* C32: in a global step that is no rebalance tick no position is opened or
\* added to, the only trades appended are those of trail_stop and time_stop
\* exits, every position open afterwards was open before with the same qty,
\* entry_price, adds_done and last_add_price, no cooldown counter goes down
\* and the candidate list and the tick counter stay as they are.
C32_OffTickFrame ==
    [][ OffTick =>
          /\ pc' \notin {"adds", "entries"}
          /\ opened' = opened
          /\ \A j \in NewTrades : trades'[j].reason \in {"trail_stop", "time_stop"}
          /\ \A k \in 1..Len(position') :
               LET q == position'[k]
               IN  /\ q.pid \in OpenPids
                   /\ LET p == PosOfPid(position, q.pid)
                      IN  /\ q.qty = p.qty /\ q.entry_price = p.entry_price
                          /\ q.adds_done = p.adds_done
                          /\ q.last_add_price = p.last_add_price
          /\ \A s \in Syms : cooldown'[s] >= cooldown[s]
          /\ candidates' = candidates
          /\ last_rebalance_step' = last_rebalance_step ]_vars

\* A step that is no rebalance tick ends with a position closed by a stop in
\* it, another position still open, and a cooldown started by the exit.
C32_Witness ==
    /\ pc = "record" /\ last_rebalance_step # step
    /\ \E j \in 1..Len(trades) :
         /\ trades[j].exit_step = step
         /\ trades[j].reason \in {"trail_stop", "time_stop"}
         /\ cooldown[trades[j].symbol] > 0
    /\ position # << >>

\* The null pattern of the features of a bar list B under the run's
\* configuration, at every index (i counts from 1, the program's from 0).
NullPattern(B) ==
    \A i \in 1..Len(B) :
      LET c == Closes(B)
          F == Features(cfg, B, i)
          L1 == IF cfg.pool_mom_L1 >= 1 THEN cfg.pool_mom_L1 ELSE 1
          L2 == IF cfg.pool_mom_L2 >= 1 THEN cfg.pool_mom_L2 ELSE 1
          Short(L) == i - 1 < L \/ c[i - L] = 0
      IN  /\ IsNone(F.ret_L) <=> Short(cfg.L_ret)
          /\ IsNone(F.momL1) <=> Short(L1)
          /\ IsNone(F.momL2) <=> Short(L2)
          /\ IsNone(sma(c, cfg.lookback_sma, i)) <=> i - 1 < cfg.lookback_sma - 1
          /\ IsNone(donchian_high(c, cfg.donchian_n, i)) <=> i - 1 < cfg.donchian_n - 1
          /\ IsNone(donchian_low(c, cfg.donchian_n, i)) <=> i - 1 < cfg.donchian_n - 1
          /\ IsNone(F.don_hi) = IsNone(F.don_lo)
          /\ IsNone(F.mom1) <=> (i - 1 < cfg.lookback_sma - 1
                                 \/ sma(c, cfg.lookback_sma, i) = Some(0))
          /\ ~IsNone(F.atr)
          /\ ema(c, cfg.ema_fast, 1) = c[1] /\ ema(c, cfg.ema_slow, 1) = c[1]
          /\ atr(B, cfg.atr_n, 1) = B[1].h - B[1].l

\* The bar list with the close of its first bar set to 0.
ZeroFirstClose(B) == IF B = << >> THEN B ELSE [B EXCEPT ![1].c = 0]

\* C33: over bars without missing values a feature is null exactly while
\* its window is not there: ret_L and the pool momenta at index i iff i is
\* less than their lag or the close they divide by is 0, the SMA and the
\* Donchian levels over n bars iff i < n - 1; the EMA and the ATR are never
\* null and the first value of an EMA is its first sample.  Looked at for
\* the series loaded so far, and for the same series with a first close
\* of 0, whenever a timestamp has been consumed.
C33_NullWhileWindowShort ==
    pc = "stops" =>
      \A s \in Syms : NullPattern(data[s]) /\ NullPattern(ZeroFirstClose(data[s]))

\* Under a three-bar average and a one-bar channel a symbol with two bars
\* has a return and Donchian levels but no mom1, and with its first close
\* set to 0 it has no return either.
C33_Witness ==
    /\ pc = "stops"
    /\ cfg.lookback_sma = 3 /\ cfg.donchian_n = 1 /\ cfg.L_ret = 1
    /\ Len(data[2]) = 2
    /\ IsNone(feat[2].mom1) /\ ~IsNone(feat[2].ret_L) /\ ~IsNone(feat[2].don_hi)
    /\ IsNone(Features(cfg, ZeroFirstClose(data[2]), 2).ret_L)

\* The trades closed in the global step under way with alignment_lost.
LostNow(s) ==
    { j \in 1..Len(trades) : /\ trades[j].symbol = s
                             /\ trades[j].exit_step = step
                             /\ trades[j].reason = "alignment_lost" }

LastCloses(s, n) == { data[s][j].c : j \in (idx[s] - n + 1)..idx[s] }

\* C35: the Donchian levels of the current bar of a symbol, once present,
\* enclose its close (don_lo <= close <= don_hi), being taken over the last
\* donchian_n closes with the current one; so close >= don_hi holds exactly
\* when the close equals don_hi, that is when it is the largest of the last
\* donchian_n closes, and close <= don_lo exactly when it is the smallest.
C35_ChannelEnclosesClose ==
    \A s \in Syms :
      (pc # "constructed" /\ ~IsNone(cur_bar[s]) /\ ~IsNone(feat[s])
       /\ ~IsNone(feat[s].don_hi) /\ ~IsNone(feat[s].don_lo)) =>
        LET c  == Val(cur_bar[s]).c
            hi == Val(feat[s].don_hi)
            lo == Val(feat[s].don_lo)
            W  == LastCloses(s, cfg.donchian_n)
        IN  /\ lo <= c /\ c <= hi
            /\ hi \in W /\ lo \in W
            /\ c >= hi <=> c = hi
            /\ c >= hi <=> \A x \in W : x <= c
            /\ c <= lo <=> c = lo
            /\ c <= lo <=> \A x \in W : c <= x

\* Over a two-bar channel a symbol breaks out upwards (its close is the
\* channel high, above the close before) while the other symbol's close
\* lies strictly inside its channel's bounds.
C35_Witness ==
    /\ pc = "rebalance"
    /\ cfg.donchian_n = 2
    /\ \E s, r \in Syms :
         /\ s # r
         /\ ~IsNone(feat[s]) /\ ~IsNone(feat[s].don_hi)
         /\ Val(cur_bar[s]).c = Val(feat[s].don_hi)
         /\ Val(feat[s].don_lo) < Val(cur_bar[s]).c
         /\ ~IsNone(feat[r]) /\ ~IsNone(feat[r].don_hi)
         /\ Val(cur_bar[r]).c < Val(feat[r].don_hi)

\* The unrealized result of a position at the current close of its symbol.
Unreal(p) == p.side * p.qty * (Val(cur_bar[p.symbol]).c - p.entry_price)

\* The slippage per unit of a fill at the current close of symbol s.
SlipAt(s) == (Val(cur_bar[s]).c * cfg.slippage_bps) \div 10000

C37_ExitAtSlippedClose ==
    [][ \A j \in NewTrades :
          LET t == trades'[j]
              c == Val(cur_bar[t.symbol]).c
          IN  /\ t.exit_ts = Val(cur_bar[t.symbol]).ts
              /\ t.side = "long" =>
                   t.exit_price = c - (c * cfg.slippage_bps) \div 10000
              /\ t.side = "short" =>
                   t.exit_price = c + (c * cfg.slippage_bps) \div 10000 ]_vars

\* A long with a stop below its entry price is closed with trail_stop at a
\* price below the stop: it loses more than the distance to the stop.
C37_Witness ==
    \E j \in 1..Len(trades) :
        /\ trades[j].reason = "trail_stop" /\ trades[j].side = "long"
        /\ trades[j].qty > 0
        /\ trades[j].stop_level < trades[j].entry_price
        /\ trades[j].exit_price < trades[j].stop_level
        /\ cfg.slippage_bps > 0

\* C38: a position opened in a global step is left as it was created for
\* the rest of the step: there is one only once the step's stop updates,
\* stop exits, alignment exits and add loop are over, its stop is its
\* initial stop, entry_price - side * the initial stop distance, it has no
\* add and its counter is 0; the stop update of the next step is its first;
\* and a trade of a position closed in the step of its entry has reason eod
\* and is appended as the run ends.
C38_NewPositionUntouched ==
    /\ [](\A k \in 1..Len(position) :
            LET p == position[k]
            IN  /\ p.entry_step <= step
                /\ p.entry_step = step =>
                     /\ pc \in {"record", "loop"}
                     /\ p.trail_stop = p.init_stop
                     /\ p.init_stop = p.entry_price - p.side * p.init_stop_dist
                     /\ p.adds_done = 0 /\ p.last_add_price = p.entry_price
                     /\ p.max_fav_price = (IF p.side > 0 THEN Val(cur_bar[p.symbol]).h
                                           ELSE Val(cur_bar[p.symbol]).l)
                     /\ bars_since_entry[p.symbol] = 0
                /\ (pc = "stops" /\ p.entry_step = step - 1) =>
                     (p.trail_stop = p.init_stop /\ bars_since_entry[p.symbol] = 1))
    /\ [][ \A j \in NewTrades :
             PosOfPid(position, trades'[j].pid).entry_step = trades'[j].exit_step =>
               (trades'[j].reason = "eod" /\ pc = "loop" /\ pc' = "done") ]_vars

\* The run ends after a rebalance tick whose entry loop opened a position:
\* the position is closed with eod in the step of its entry, at its initial
\* stop level.
C38_Witness ==
    /\ pc = "done" /\ last_rebalance_step = step
    /\ trades # << >>
    /\ LET t == trades[Len(trades)]
       IN  /\ t.reason = "eod" /\ t.exit_step = step /\ t.pid = opened
           /\ t.qty > 0
           /\ \E i \in 1..Len(sizings) :
                /\ sizings[i].kind = "entry" /\ sizings[i].symbol = t.symbol
                /\ sizings[i].final_notional > 0
           /\ t.stop_level # t.entry_price

\* The symbols with a current bar and both momenta present.
Scored == { s \in Syms : /\ ~IsNone(cur_bar[s]) /\ ~IsNone(feat[s])
                         /\ ~IsNone(feat[s].mom1) /\ ~IsNone(feat[s].mom2) }

\* The momenta of the scored symbols have no spread: mom1 is the same for
\* all of them and so is mom2 (so when there is one such symbol).
ZeroSpread ==
    /\ Scored # {}
    /\ \A s, r \in Scored : /\ feat[s].mom1 = feat[r].mom1
                            /\ feat[s].mom2 = feat[r].mom2

\* The momenta of the scored symbols, in the order of the symbol list.
ScoredMomenta(field) ==
    LET vs == SelectSeq(<<1, 2>>, LAMBDA s : s \in Scored)
    IN  [k \in 1..Len(vs) |-> IF field = 1 THEN feat[vs[k]].mom1 ELSE feat[vs[k]].mom2]

\* C39: at a rebalance tick where the momenta of the scored symbols have no
\* spread every z-score is 0, and every candidate there would be without
\* the threshold has score 0; with z_score_thresh > 0 the candidate list of
\* the tick is empty and its entry loop opens nothing; and a run in which
\* only one symbol ever has bars opens no position at all.
C39_ZeroSpreadNoEntry ==
    /\ []((cfg.z_score_thresh > 0 /\ data[1] = << >>) =>
            (opened = 0 /\ position = << >> /\ trades = << >>))
    /\ [][ (ZeroSpread /\ pc = "rebalance" /\ pc' = "adds") =>
             /\ \A k \in 1..Cardinality(Scored) :
                  /\ zscore(ScoredMomenta(1))[k] = Some(0)
                  /\ zscore(ScoredMomenta(2))[k] = Some(0)
             /\ LET free == Candidates([cfg EXCEPT !.z_score_thresh = 0], cooldown')
                IN  \A k \in 1..Len(free) : free[k][1] = 0
             /\ cfg.z_score_thresh > 0 => candidates' = << >> ]_vars
    /\ [][ (ZeroSpread /\ pc = "entries" /\ cfg.z_score_thresh > 0) =>
             (opened' = opened /\ position' = position /\ sizings' = << >>) ]_vars

\* Only one symbol has had bars; at a rebalance tick it breaks out and would
\* be a candidate without the threshold, and the candidate list is empty.
C39_Witness ==
    /\ pc = "adds"
    /\ cfg.z_score_thresh > 0
    /\ data[1] = << >>
    /\ ZeroSpread
    /\ Candidates([cfg EXCEPT !.z_score_thresh = 0], cooldown) # << >>
    /\ candidates = << >>
    /\ opened = 0

====
